---- MODULE Spec2Model ----
(***************************************************************************)
(* Model of the portfolio ledger of the trading pipeline                   *)
(* (src/src/risk_management/portfolio_manager.py, PortfolioRiskManager).   *)
(*                                                                         *)
(* Money is modelled with integers: every price, quantity and capital      *)
(* drawn below is an integer, for which the float arithmetic of the source *)
(* is exact.  A fraction such as max_daily_loss_percent is a pair          *)
(* numerator/denominator and `a / b >= n / d` is compared as               *)
(* `a * d >= b * n` (both denominators are positive).                      *)
(***************************************************************************)
EXTENDS Integers, Sequences, FiniteSets, TLC

(***************************************************************************)
(* Bounds of the model and the inputs the callers draw from.               *)
(***************************************************************************)
MaxOpens == 3

Symbols == {"HDFCBANK", "ICICIBANK", "ITC"}
NoSector == "None"
Sectors == {"Banking"}
SectorArgs == Sectors \cup {NoSector}
Quantities == {-1, 2}
EntryPrices == {10}
ExitPrices == {9, 10, 11}
UpdatePrices == {11}
Values == {0, 10, 22}
AdmitSymbols == {"ITC"}

\* the quantities in which a symbol is opened (a duplicate open may carry any)
quantities_of(symbol) ==
    IF symbol = "ICICIBANK" THEN {-1} ELSE {2}

\* the sector tag the callers give a position (StrategyValidator._get_sector)
get_sector(symbol) ==
    IF symbol \in {"HDFCBANK", "ICICIBANK"} THEN "Banking" ELSE NoSector

(***************************************************************************)
(* Configuration passed to PortfolioRiskManager.__init__.                  *)
(***************************************************************************)
configured_capital == 40
max_positions == 2
max_trades_per_day == 2
max_daily_loss_percent_num == 5
max_daily_loss_percent_den == 100
max_sector_exposure_percent_num == 50
max_sector_exposure_percent_den == 100

(***************************************************************************)
(* State.                                                                  *)
(*   new_day           date.today() differs from self.current_date: the    *)
(*                     source only compares the two dates, and the clock   *)
(*                     never runs backwards, so the days need no numbers   *)
(*                     and their count no bound                            *)
(*   capital .. todays_trades      the fields of PortfolioRiskManager      *)
(*   ret               the last call made on the ledger and what it        *)
(*                     returned, or "midnight" once the date has changed   *)
(*                     since (allowed then tells whether the last call was *)
(*                     an accepting can_take_trade)                        *)
(*   opens_on_day, loss_on_day, cap_hit_on_day, before, rtrip              *)
(*                     history of the calls, by wall-clock day             *)
(*   opens             the positions opened so far (bounded by MaxOpens)   *)
(*   input, output     the arguments and the return value of a call of a  *)
(*                     function that keeps no state (the RiskCalculator,   *)
(*                     the float comparisons of the loss cap); the ledger  *)
(*                     leaves them alone                                   *)
(*   handler           the WebhookHandler: its configuration and its       *)
(*                     request_timestamps                                  *)
(*   now               the wall clock read by check_rate_limit, in ticks   *)
(*   accepted_at       history: the clock readings at which               *)
(*                     check_rate_limit accepted a request, each with the  *)
(*                     answer validate_request then gave                   *)
(***************************************************************************)
VARIABLES capital, initial_capital,
          new_day, daily_loss, daily_profit, trades_today,
          active_positions, todays_trades, ret,
          opens_on_day, loss_on_day, cap_hit_on_day, before, rtrip, opens,
          input, output, handler, now, accepted_at

ledger == <<capital, initial_capital, new_day, daily_loss, daily_profit, trades_today,
            active_positions, todays_trades>>
history == <<opens_on_day, loss_on_day, cap_hit_on_day, before, rtrip>>
vars == <<capital, initial_capital,
          new_day, daily_loss, daily_profit, trades_today,
          active_positions, todays_trades, ret,
          opens_on_day, loss_on_day, cap_hit_on_day, before, rtrip, opens,
          input, output, handler, now, accepted_at>>
webhook_vars == <<handler, now, accepted_at>>

\* no WebhookHandler has been constructed
WebhookIdle ==
    /\ handler = << >>
    /\ now = 0
    /\ accepted_at = << >>

None == << >>
Some(v) == <<v>>

Abs(x) == IF x < 0 THEN -x ELSE x

\* Position.position_value
\* a notional that would stay at the entry price
position_value_at_entry(pos) == Abs(pos.quantity) * pos.entry_price
position_value(pos) == Abs(pos.quantity) * pos.current_price

RECURSIVE SumValue(_, _)
SumValue(positions, syms) ==
    IF syms = {} THEN 0
    ELSE LET s == CHOOSE x \in syms : TRUE
         IN position_value(positions[s]) + SumValue(positions, syms \ {s})

\* sum(pos.position_value for pos in self.active_positions.values())
used_capital(positions) == SumValue(positions, DOMAIN positions)

calculate_sector_exposure_untagged(positions, sector) ==
    SumValue(positions, DOMAIN positions)
\* PortfolioRiskManager._calculate_sector_exposure
calculate_sector_exposure(positions, sector) ==
    SumValue(positions, {s \in DOMAIN positions : positions[s].sector = sector})

pnl_at_as_long(pos, price) == (price - pos.entry_price) * Abs(pos.quantity)
\* signed P&L of a position at a price (remove_position, update_position_price)
pnl_at(pos, price) ==
    IF pos.quantity > 0
    THEN (price - pos.entry_price) * pos.quantity
    ELSE (pos.entry_price - price) * Abs(pos.quantity)

\* if position.symbol in self.active_positions (add_position)
already_exists_dropped(positions, symbol) == FALSE
already_exists(positions, symbol) == symbol \in DOMAIN positions

\* self.active_positions[position.symbol] = position
positions_with(positions, symbol, pos) ==
    [s \in DOMAIN positions \cup {symbol} |->
        IF s = symbol THEN pos ELSE positions[s]]

\* del self.active_positions[symbol]
positions_without_kept(positions, symbol) == positions
positions_without(positions, symbol) ==
    [s \in DOMAIN positions \ {symbol} |-> positions[s]]

(***************************************************************************)
(* _check_and_reset_daily_counters: the values of the daily fields after   *)
(* the lazy reset that opens can_take_trade, add_position and              *)
(* get_portfolio_summary.                                                  *)
(***************************************************************************)
reset_loss == IF new_day THEN 0 ELSE daily_loss
reset_profit == IF new_day THEN 0 ELSE daily_profit
\* a reset that would keep yesterday's trade count
reset_trades_kept == trades_today
reset_trades == IF new_day THEN 0 ELSE trades_today
\* a reset that would keep the log of the day before
reset_log_kept == todays_trades
reset_log == IF new_day THEN << >> ELSE todays_trades

loss_limit_exceeded(loss) ==
    Abs(loss) * max_daily_loss_percent_den
        > initial_capital * max_daily_loss_percent_num
\* abs(daily_loss) / initial_capital >= max_daily_loss_percent
loss_limit_reached(loss) ==
    Abs(loss) * max_daily_loss_percent_den
        >= initial_capital * max_daily_loss_percent_num

(***************************************************************************)
(* can_take_trade, after its lazy reset: the five checks in source order.  *)
(***************************************************************************)
admission_loss_first(positions, loss, trades, value, sector) ==
    IF loss_limit_reached(loss)
    THEN [allowed |-> FALSE, reason |-> "DAILY_LOSS"]
    ELSE IF Cardinality(DOMAIN positions) >= max_positions
    THEN [allowed |-> FALSE, reason |-> "MAX_POSITIONS"]
    ELSE IF trades >= max_trades_per_day
    THEN [allowed |-> FALSE, reason |-> "MAX_TRADES"]
    ELSE IF value > capital - used_capital(positions)
    THEN [allowed |-> FALSE, reason |-> "INSUFFICIENT_CAPITAL"]
    ELSE IF sector # NoSector
            /\ (calculate_sector_exposure(positions, sector) + value)
                   * max_sector_exposure_percent_den
               > capital * max_sector_exposure_percent_num
    THEN [allowed |-> FALSE, reason |-> "SECTOR_EXPOSURE"]
    ELSE [allowed |-> TRUE, reason |-> "PASSED"]

admission_strict_positions(positions, loss, trades, value, sector) ==
    IF Cardinality(DOMAIN positions) > max_positions
    THEN [allowed |-> FALSE, reason |-> "MAX_POSITIONS"]
    ELSE IF loss_limit_reached(loss)
    THEN [allowed |-> FALSE, reason |-> "DAILY_LOSS"]
    ELSE IF trades >= max_trades_per_day
    THEN [allowed |-> FALSE, reason |-> "MAX_TRADES"]
    ELSE IF value > capital - used_capital(positions)
    THEN [allowed |-> FALSE, reason |-> "INSUFFICIENT_CAPITAL"]
    ELSE IF sector # NoSector
            /\ (calculate_sector_exposure(positions, sector) + value)
                   * max_sector_exposure_percent_den
               > capital * max_sector_exposure_percent_num
    THEN [allowed |-> FALSE, reason |-> "SECTOR_EXPOSURE"]
    ELSE [allowed |-> TRUE, reason |-> "PASSED"]

admission_strict_trades(positions, loss, trades, value, sector) ==
    IF Cardinality(DOMAIN positions) >= max_positions
    THEN [allowed |-> FALSE, reason |-> "MAX_POSITIONS"]
    ELSE IF loss_limit_reached(loss)
    THEN [allowed |-> FALSE, reason |-> "DAILY_LOSS"]
    ELSE IF trades > max_trades_per_day
    THEN [allowed |-> FALSE, reason |-> "MAX_TRADES"]
    ELSE IF value > capital - used_capital(positions)
    THEN [allowed |-> FALSE, reason |-> "INSUFFICIENT_CAPITAL"]
    ELSE IF sector # NoSector
            /\ (calculate_sector_exposure(positions, sector) + value)
                   * max_sector_exposure_percent_den
               > capital * max_sector_exposure_percent_num
    THEN [allowed |-> FALSE, reason |-> "SECTOR_EXPOSURE"]
    ELSE [allowed |-> TRUE, reason |-> "PASSED"]

admission_unfunded(positions, loss, trades, value, sector) ==
    IF Cardinality(DOMAIN positions) >= max_positions
    THEN [allowed |-> FALSE, reason |-> "MAX_POSITIONS"]
    ELSE IF loss_limit_reached(loss)
    THEN [allowed |-> FALSE, reason |-> "DAILY_LOSS"]
    ELSE IF trades >= max_trades_per_day
    THEN [allowed |-> FALSE, reason |-> "MAX_TRADES"]
    ELSE IF sector # NoSector
            /\ (calculate_sector_exposure(positions, sector) + value)
                   * max_sector_exposure_percent_den
               > capital * max_sector_exposure_percent_num
    THEN [allowed |-> FALSE, reason |-> "SECTOR_EXPOSURE"]
    ELSE [allowed |-> TRUE, reason |-> "PASSED"]

admission(positions, loss, trades, value, sector) ==
    IF Cardinality(DOMAIN positions) >= max_positions
    THEN [allowed |-> FALSE, reason |-> "MAX_POSITIONS"]
    ELSE IF loss_limit_reached(loss)
    THEN [allowed |-> FALSE, reason |-> "DAILY_LOSS"]
    ELSE IF trades >= max_trades_per_day
    THEN [allowed |-> FALSE, reason |-> "MAX_TRADES"]
    ELSE IF value > capital - used_capital(positions)
    THEN [allowed |-> FALSE, reason |-> "INSUFFICIENT_CAPITAL"]
    ELSE IF sector # NoSector
            /\ (calculate_sector_exposure(positions, sector) + value)
                   * max_sector_exposure_percent_den
               > capital * max_sector_exposure_percent_num
    THEN [allowed |-> FALSE, reason |-> "SECTOR_EXPOSURE"]
    ELSE [allowed |-> TRUE, reason |-> "PASSED"]

\* what can_take_trade(symbol, value, sector) returns when called now
can_take_trade_result(symbol, value, sector) ==
    admission(active_positions, reset_loss, reset_trades, value, sector)

Ret(op, allowed, reason, pnl) ==
    [op |-> op, allowed |-> allowed, reason |-> reason, pnl |-> pnl]

NoBefore == [positions |-> << >>, loss |-> 0, profit |-> 0, symbol |-> "-",
             same_day |-> FALSE]

Init ==
    /\ initial_capital = configured_capital
    /\ capital = configured_capital
    /\ new_day = FALSE
    /\ daily_loss = 0
    /\ daily_profit = 0
    /\ trades_today = 0
    /\ active_positions = << >>
    /\ todays_trades = << >>
    /\ ret = Ret("init", FALSE, "-", 0)
    /\ opens_on_day = 0
    /\ loss_on_day = 0
    /\ cap_hit_on_day = FALSE
    /\ before = NoBefore
    /\ rtrip = "none"
    /\ opens = 0
    /\ input = << >>
    /\ output = << >>
    /\ WebhookIdle

\* the wall clock passes midnight; no call is made
Tick ==
    /\ new_day' = TRUE
    /\ UNCHANGED <<capital, initial_capital>>
    /\ ret' = Ret("midnight",
                  ret.op \in {"can_take_trade", "midnight"} /\ ret.allowed,
                  "-", 0)
    /\ opens_on_day' = 0
    /\ loss_on_day' = 0
    /\ cap_hit_on_day' = FALSE
    /\ before' = NoBefore
    /\ rtrip' = "none"
    /\ UNCHANGED <<daily_loss, daily_profit, trades_today, active_positions,
                   todays_trades, opens>>
    /\ UNCHANGED <<input, output, webhook_vars>>

\* what a call of can_take_trade does to the ledger
ledger_can_take_trade(symbol, value, sector) ==
    /\ new_day' = FALSE
    /\ UNCHANGED <<capital, initial_capital>>
    /\ daily_loss' = reset_loss
    /\ daily_profit' = reset_profit
    /\ trades_today' = reset_trades
    /\ todays_trades' = reset_log
    /\ LET r == can_take_trade_result(symbol, value, sector)
       IN ret' = Ret("can_take_trade", r.allowed, r.reason, 0)
    /\ before' = NoBefore
    /\ rtrip' = "none"
    /\ UNCHANGED <<active_positions, opens_on_day, loss_on_day,
                   cap_hit_on_day, opens>>

\* a can_take_trade that would reserve a trade slot when it accepts
can_take_trade_reserving(symbol, value, sector) ==
    /\ new_day' = FALSE
    /\ UNCHANGED <<capital, initial_capital>>
    /\ daily_loss' = reset_loss
    /\ daily_profit' = reset_profit
    /\ LET r == can_take_trade_result(symbol, value, sector)
       IN /\ ret' = Ret("can_take_trade", r.allowed, r.reason, 0)
          /\ trades_today' = IF r.allowed THEN reset_trades + 1
                                          ELSE reset_trades
    /\ todays_trades' = reset_log
    /\ before' = NoBefore
    /\ rtrip' = "none"
    /\ UNCHANGED <<active_positions, opens_on_day, loss_on_day,
                   cap_hit_on_day, opens>>
    /\ UNCHANGED <<input, output, webhook_vars>>

can_take_trade(symbol, value, sector) ==
    /\ ledger_can_take_trade(symbol, value, sector)
    /\ UNCHANGED <<input, output, webhook_vars>>

\* what a call of add_position does to the ledger
ledger_add_position(symbol, quantity, entry_price, sector) ==
    /\ new_day' = FALSE
    /\ UNCHANGED <<capital, initial_capital>>
    /\ daily_loss' = reset_loss
    /\ daily_profit' = reset_profit
    /\ IF already_exists(active_positions, symbol)
       THEN /\ trades_today' = reset_trades
            /\ todays_trades' = reset_log
            /\ active_positions' = active_positions
            /\ ret' = Ret("add_position", FALSE, "EXISTS", 0)
            /\ before' = NoBefore
            /\ rtrip' = "none"
            /\ UNCHANGED <<opens_on_day, opens>>
       ELSE /\ opens < MaxOpens
            /\ opens' = opens + 1
            /\ active_positions' =
                 positions_with(active_positions, symbol,
                    [quantity |-> quantity, entry_price |-> entry_price,
                     current_price |-> entry_price, pnl |-> 0,
                     sector |-> sector])
            /\ trades_today' = reset_trades + 1
            /\ todays_trades' =
                 Append(reset_log,
                        [symbol |-> symbol,
                         action |-> IF quantity > 0 THEN "BUY" ELSE "SELL",
                         quantity |-> Abs(quantity),
                         price |-> entry_price,
                         pnl |-> None])
            /\ ret' = Ret("add_position", TRUE, "ADDED", 0)
            /\ before' = [positions |-> active_positions,
                          loss |-> daily_loss, profit |-> daily_profit,
                          symbol |-> symbol, same_day |-> ~new_day]
            /\ rtrip' = "opened"
            /\ opens_on_day' = opens_on_day + 1
    /\ UNCHANGED <<loss_on_day, cap_hit_on_day>>

\* an add_position that would run the admission check itself
add_position_checked(symbol, quantity, entry_price, sector) ==
    /\ IF can_take_trade_result(symbol, Abs(quantity) * entry_price,
                               sector).allowed
       THEN ledger_add_position(symbol, quantity, entry_price, sector)
       ELSE /\ new_day' = FALSE
            /\ UNCHANGED <<capital, initial_capital>>
            /\ daily_loss' = reset_loss
            /\ daily_profit' = reset_profit
            /\ trades_today' = reset_trades
            /\ todays_trades' = reset_log
            /\ ret' = Ret("add_position", FALSE, "BLOCKED", 0)
            /\ before' = NoBefore
            /\ rtrip' = "none"
            /\ UNCHANGED <<active_positions, opens_on_day, loss_on_day,
                           cap_hit_on_day, opens>>
    /\ UNCHANGED <<input, output, webhook_vars>>

add_position(symbol, quantity, entry_price, sector) ==
    /\ ledger_add_position(symbol, quantity, entry_price, sector)
    /\ UNCHANGED <<input, output, webhook_vars>>

\* a fill that would write the pnl into every record of the symbol
fill_record_all(log, symbol, pnl) ==
    [i \in DOMAIN log |->
        IF log[i].symbol = symbol THEN [log[i] EXCEPT !.pnl = Some(pnl)]
        ELSE log[i]]

\* the first record of the symbol whose pnl is still None gets the pnl
RECURSIVE fill_record(_, _, _)
fill_record(log, symbol, pnl) ==
    IF log = << >> THEN << >>
    ELSE IF Head(log).symbol = symbol /\ Head(log).pnl = None
    THEN <<[Head(log) EXCEPT !.pnl = Some(pnl)]>> \o Tail(log)
    ELSE <<Head(log)>> \o fill_record(Tail(log), symbol, pnl)

\* a booking that would net the result of every close against the loss
booked_loss_net(loss0, pnl) == loss0 - pnl
\* self.daily_loss after a close with result pnl
booked_loss(loss0, pnl) == IF pnl < 0 THEN loss0 + Abs(pnl) ELSE loss0

\* self.daily_profit after a close with result pnl
booked_profit(profit0, pnl) == IF pnl < 0 THEN profit0 ELSE profit0 + pnl

\* the body of remove_position, run on the daily fields it finds
remove_position_from(symbol, exit_price, nd, loss0, profit0, trades0, log0) ==
    /\ new_day' = nd
    /\ UNCHANGED <<capital, initial_capital>>
    /\ trades_today' = trades0
    /\ IF symbol \notin DOMAIN active_positions
       THEN /\ daily_loss' = loss0
            /\ daily_profit' = profit0
            /\ todays_trades' = log0
            /\ UNCHANGED <<active_positions, loss_on_day, cap_hit_on_day>>
            /\ ret' = Ret("remove_position", FALSE, "NOT_FOUND", 0)
            /\ rtrip' = "none"
       ELSE LET position == active_positions[symbol]
                pnl == pnl_at(position, exit_price)
                loss == booked_loss(loss0, pnl)
            IN /\ daily_loss' = loss
               /\ daily_profit' = booked_profit(profit0, pnl)
               /\ todays_trades' = fill_record(log0, symbol, pnl)
               /\ active_positions' =
                    positions_without(active_positions, symbol)
               /\ ret' = Ret("remove_position", TRUE, "CLOSED", pnl)
               /\ loss_on_day' =
                    IF pnl < 0 THEN loss_on_day + Abs(pnl) ELSE loss_on_day
               /\ cap_hit_on_day' =
                    (cap_hit_on_day \/ loss_limit_reached(loss))
               /\ rtrip' = IF /\ rtrip = "opened"
                              /\ before.symbol = symbol
                              /\ exit_price = position.entry_price
                           THEN "closed" ELSE "none"
    /\ before' = IF rtrip' = "closed" THEN before ELSE NoBefore
    /\ UNCHANGED <<opens_on_day, opens>>
    /\ UNCHANGED <<input, output, webhook_vars>>

remove_position_with_reset(symbol, exit_price) ==
    remove_position_from(symbol, exit_price, FALSE, reset_loss, reset_profit,
                         reset_trades, reset_log)
\* remove_position does not call _check_and_reset_daily_counters
remove_position(symbol, exit_price) ==
    remove_position_from(symbol, exit_price, new_day, daily_loss,
                         daily_profit, trades_today, todays_trades)

update_position_price(symbol, current_price) ==
    /\ IF symbol \notin DOMAIN active_positions
       THEN UNCHANGED active_positions
       ELSE LET position == active_positions[symbol]
            IN active_positions' =
                 [active_positions EXCEPT ![symbol] =
                    [position EXCEPT
                       !.current_price = current_price,
                       !.pnl = pnl_at(position, current_price)]]
    /\ ret' = Ret("update_position_price", TRUE, "-", 0)
    /\ before' = NoBefore
    /\ rtrip' = "none"
    /\ UNCHANGED <<capital, initial_capital, new_day, daily_loss,
                   daily_profit, trades_today, todays_trades, opens_on_day,
                   loss_on_day, cap_hit_on_day, opens>>
    /\ UNCHANGED <<input, output, webhook_vars>>

\* can_trade_more of the summary, on the fields after the lazy reset
can_trade_more ==
    /\ reset_trades < max_trades_per_day
    /\ Abs(reset_loss) * 100 * max_daily_loss_percent_den
         < initial_capital * max_daily_loss_percent_num * 100

get_portfolio_summary ==
    /\ new_day' = FALSE
    /\ UNCHANGED <<capital, initial_capital>>
    /\ daily_loss' = reset_loss
    /\ daily_profit' = reset_profit
    /\ trades_today' = reset_trades
    /\ todays_trades' = reset_log
    /\ ret' = Ret("get_portfolio_summary", can_trade_more, "-", 0)
    /\ before' = NoBefore
    /\ rtrip' = "none"
    /\ UNCHANGED <<active_positions, opens_on_day, loss_on_day,
                   cap_hit_on_day, opens>>
    /\ UNCHANGED <<input, output, webhook_vars>>

\* can_take_trade reads its symbol only to log it
CanTakeTrade ==
    \E s \in AdmitSymbols, v \in Values, sec \in SectorArgs :
        can_take_trade(s, v, sec)
AddPosition ==
    \E s \in Symbols, q \in Quantities, p \in EntryPrices :
        /\ already_exists(active_positions, s) \/ q \in quantities_of(s)
        /\ add_position(s, q, p, get_sector(s))
RemovePosition ==
    \E s \in Symbols, p \in ExitPrices : remove_position(s, p)
UpdatePositionPrice ==
    \E s \in Symbols, p \in UpdatePrices : update_position_price(s, p)

Next ==
    \/ Tick
    \/ CanTakeTrade
    \/ AddPosition
    \/ RemovePosition
    \/ UpdatePositionPrice
    \/ get_portfolio_summary

Spec == Init /\ [][Next]_vars

(***************************************************************************)
(* The single disciplined caller: add_position only as the call right      *)
(* after a can_take_trade that returned true.                              *)
(***************************************************************************)
AdmittedAddPosition ==
    /\ ret.op \in {"can_take_trade", "midnight"}
    /\ ret.allowed
    /\ AddPosition

NextAdmitted ==
    \/ Tick
    \/ CanTakeTrade
    \/ AdmittedAddPosition
    \/ RemovePosition
    \/ UpdatePositionPrice
    \/ get_portfolio_summary

SpecAdmitted == Init /\ [][NextAdmitted]_vars

(***************************************************************************)
(* The caller that sizes what it asks for: it proposes a position to       *)
(* can_take_trade with the notional |quantity| * price, opens that         *)
(* position with add_position as its very next call when the answer was    *)
(* true, and never calls update_position_price.  Nothing runs between the  *)
(* two calls, so the answer to the proposal is can_take_trade_result in    *)
(* the state the open starts from.                                         *)
(***************************************************************************)
FundedQuantities == {-1, 2, 3}

FundedCanTakeTrade ==
    \E s \in Symbols, q \in FundedQuantities, p \in EntryPrices :
        can_take_trade(s, Abs(q) * p, get_sector(s))

FundedAddPosition ==
    \E s \in Symbols, q \in FundedQuantities, p \in EntryPrices :
        /\ ret.op = "can_take_trade"
        /\ ret.allowed
        /\ can_take_trade_result(s, Abs(q) * p, get_sector(s)).allowed
        /\ add_position(s, q, p, get_sector(s))

NextFunded ==
    \/ Tick
    \/ FundedCanTakeTrade
    \/ FundedAddPosition
    \/ RemovePosition
    \/ get_portfolio_summary

SpecFunded == Init /\ [][NextFunded]_vars

(***************************************************************************)
(* The loss cap in binary64.  daily_loss is a float: a close of 20 shares   *)
(* bought at 1727.32 and sold at 977.32 books 14999.999999999998, and      *)
(* abs(daily_loss) / initial_capital is then the float just below 0.05.    *)
(* A positive binary64 number is m * 2^e with 2^52 <= m < 2^53; m is kept  *)
(* as four limbs base 2^16, least significant first, so that no            *)
(* intermediate value leaves 32 bits.  A product is rounded to nearest,    *)
(* ties to even, as IEEE 754 multiplication does.                          *)
(***************************************************************************)
MaxUlps == 3
MaxTradesToday == 4

Limb == 65536
Pow2(k) == IF k = 0 THEN 1 ELSE IF k = 1 THEN 2 ELSE IF k = 2 THEN 4
           ELSE IF k = 3 THEN 8 ELSE IF k = 4 THEN 16 ELSE IF k = 5 THEN 32
           ELSE IF k = 6 THEN 64 ELSE 128

\* the exact product m * k of a mantissa and a small integer (k <= 128)
limbs_times(m, k) ==
    LET t1 == m[1] * k
        t2 == m[2] * k + t1 \div Limb
        t3 == m[3] * k + t2 \div Limb
        t4 == m[4] * k + t3 \div Limb
    IN <<t1 % Limb, t2 % Limb, t3 % Limb, t4>>

\* m + 1
limbs_increment(m) ==
    IF m[1] + 1 < Limb THEN <<m[1] + 1, m[2], m[3], m[4]>>
    ELSE IF m[2] + 1 < Limb THEN <<0, m[2] + 1, m[3], m[4]>>
    ELSE IF m[3] + 1 < Limb THEN <<0, 0, m[3] + 1, m[4]>>
    ELSE <<0, 0, 0, m[4] + 1>>

\* m - 1
limbs_decrement(m) ==
    IF m[1] > 0 THEN <<m[1] - 1, m[2], m[3], m[4]>>
    ELSE IF m[2] > 0 THEN <<Limb - 1, m[2] - 1, m[3], m[4]>>
    ELSE IF m[3] > 0 THEN <<Limb - 1, Limb - 1, m[3] - 1, m[4]>>
    ELSE <<Limb - 1, Limb - 1, Limb - 1, m[4] - 1>>

limbs_less(a, b) ==
    \/ a[4] < b[4]
    \/ a[4] = b[4] /\ a[3] < b[3]
    \/ a[4] = b[4] /\ a[3] = b[3] /\ a[2] < b[2]
    \/ a[4] = b[4] /\ a[3] = b[3] /\ a[2] = b[2] /\ a[1] < b[1]

\* the bits a product has beyond the 53 of a mantissa (bit 52 is bit 4 of
\* the top limb)
excess_bits(t) == CHOOSE k \in 0..7 : t[4] \div Pow2(k) \in 16..31

\* t * 2^e rounded to binary64, to nearest, ties to even
float_round(e, t) ==
    LET k == excess_bits(t)
        d == Pow2(k)
        q4 == t[4] \div d
        c3 == (t[4] % d) * Limb + t[3]
        q3 == c3 \div d
        c2 == (c3 % d) * Limb + t[2]
        q2 == c2 \div d
        c1 == (c2 % d) * Limb + t[1]
        q1 == c1 \div d
        dropped == c1 % d
        up == \/ 2 * dropped > d
              \/ 2 * dropped = d /\ q1 % 2 = 1
        q == <<q1, q2, q3, q4>>
        r == IF up THEN limbs_increment(q) ELSE q
    IN IF r[4] = 32 THEN [e |-> e + k + 1, m |-> <<0, 0, 0, 16>>]
                    ELSE [e |-> e + k, m |-> r]

\* x * k in binary64, for a small positive integer k
float_times(x, k) == float_round(x.e, limbs_times(x.m, k))

float_less(a, b) == a.e < b.e \/ (a.e = b.e /\ limbs_less(a.m, b.m))

\* the float d units in the last place above x (below for d < 0)
RECURSIVE float_ulps(_, _)
float_ulps(x, d) ==
    IF d = 0 THEN x
    ELSE IF d > 0 THEN float_ulps([x EXCEPT !.m = limbs_increment(@)], d - 1)
    ELSE float_ulps([x EXCEPT !.m = limbs_decrement(@)], d + 1)

\* the literals 0.02 (the default), 0.03 and 0.05 as binary64
LossFractions ==
    { [name |-> "0.02", e |-> -58, m |-> <<5243, 18350, 31457, 20>>],
      [name |-> "0.03", e |-> -58, m |-> <<7864, 60293, 47185, 30>>],
      [name |-> "0.05", e |-> -57, m |-> <<39322, 39321, 39321, 25>>] }

\* checks 2 and 3 of can_take_trade both pass:
\* not abs(daily_loss) / initial_capital >= max_daily_loss_percent, and
\* not trades_today >= max_trades_per_day
float_checks_pass(i) ==
    /\ float_less(i.loss_ratio, i.max_daily_loss_percent)
    /\ ~(i.trades_today >= i.max_trades_per_day)

\* daily_loss_percent = (abs(daily_loss) / initial_capital) * 100
daily_loss_percent(i) == float_times(i.loss_ratio, 100)

\* can_trade_more: trades_today < max_trades_per_day
\*                 and daily_loss_percent < max_daily_loss_percent * 100
float_can_trade_more(i) ==
    /\ i.trades_today < i.max_trades_per_day
    /\ float_less(daily_loss_percent(i),
                  float_times(i.max_daily_loss_percent, 100))

LedgerIdle ==
    /\ initial_capital = configured_capital
    /\ capital = configured_capital
    /\ new_day = FALSE
    /\ daily_loss = 0
    /\ daily_profit = 0
    /\ trades_today = 0
    /\ active_positions = << >>
    /\ todays_trades = << >>
    /\ ret = Ret("init", FALSE, "-", 0)
    /\ opens_on_day = 0
    /\ loss_on_day = 0
    /\ cap_hit_on_day = FALSE
    /\ before = NoBefore
    /\ rtrip = "none"
    /\ opens = 0

ledger_vars == <<capital, initial_capital,
                 new_day, daily_loss, daily_profit, trades_today,
                 active_positions, todays_trades, ret, opens_on_day,
                 loss_on_day, cap_hit_on_day, before, rtrip, opens>>

\* a ledger whose loss ratio lies within MaxUlps of its cap
InitLossCap ==
    /\ LedgerIdle
    /\ WebhookIdle
    /\ \E p \in LossFractions, d \in (0 - MaxUlps)..MaxUlps,
          t \in 0..MaxTradesToday :
         input = [max_daily_loss_percent |-> [e |-> p.e, m |-> p.m],
                  loss_ratio |-> float_ulps([e |-> p.e, m |-> p.m], d),
                  trades_today |-> t,
                  max_trades_per_day |-> max_trades_per_day + 1]
    /\ output = [checks_pass |-> None, can_trade_more |-> None]

\* can_take_trade evaluates its checks 2 and 3
CheckLossAndTrades ==
    /\ output.checks_pass = None
    /\ output' = [output EXCEPT
                    !.checks_pass = Some(float_checks_pass(input))]
    /\ UNCHANGED <<input, ledger_vars, webhook_vars>>

\* get_portfolio_summary computes can_trade_more
SummaryCanTradeMore ==
    /\ output.can_trade_more = None
    /\ output' = [output EXCEPT
                    !.can_trade_more = Some(float_can_trade_more(input))]
    /\ UNCHANGED <<input, ledger_vars, webhook_vars>>

NextLossCap == CheckLossAndTrades \/ SummaryCanTradeMore

SpecLossCap == InitLossCap /\ [][NextLossCap]_vars

(***************************************************************************)
(* Construction.  A fraction given to a constructor is counted in units of *)
(* 1/10000 (0.05 is 500, 0.02 is 200); the decimal literals drawn below    *)
(* compare in binary64 as these integers do.  A call that raises leaves no *)
(* object: its outcome is the exception.                                   *)
(***************************************************************************)
LedgerCapitals == {-1, 0, 1, 40}
LedgerMaxPositions == {-1, 0, 1, 2}
LossPercents == {-100, 0, 1, 200, 500, 501, 600}
CalculatorCapitals == {-1, 0, 1, 300000}
RiskPercents == {-50, 0, 1, 100, 200, 201}

NotCalled == [raised |-> "?", value |-> << >>]
Raise(e) == [raised |-> e, value |-> << >>]
Return(v) == [raised |-> "-", value |-> v]

PortfolioRiskManager_init_below_cap(cap, maxpos, loss_percent) ==
    IF cap <= 0 THEN Raise("ValueError")
    ELSE IF maxpos < 1 THEN Raise("ValueError")
    ELSE IF ~(0 < loss_percent /\ loss_percent < 500)
    THEN Raise("ValueError")
    ELSE Return([initial_capital |-> cap, capital |-> cap,
                 max_positions |-> maxpos,
                 max_daily_loss_percent |-> loss_percent])

\* PortfolioRiskManager.__init__
PortfolioRiskManager_init(cap, maxpos, loss_percent) ==
    IF cap <= 0 THEN Raise("ValueError")
    ELSE IF maxpos < 1 THEN Raise("ValueError")
    ELSE IF ~(0 < loss_percent /\ loss_percent <= 500)
    THEN Raise("ValueError")
    ELSE Return([initial_capital |-> cap, capital |-> cap,
                 max_positions |-> maxpos,
                 max_daily_loss_percent |-> loss_percent])

\* RiskCalculator.__init__
RiskCalculator_init(cap, max_risk_percent) ==
    IF cap <= 0 THEN Raise("ValueError")
    ELSE IF ~(0 < max_risk_percent /\ max_risk_percent <= 200)
    THEN Raise("ValueError")
    ELSE Return([capital |-> cap, max_risk_percent |-> max_risk_percent])

InitConstruct ==
    /\ LedgerIdle
    /\ WebhookIdle
    /\ \/ \E c \in LedgerCapitals, n \in LedgerMaxPositions,
             l \in LossPercents :
            input = [class |-> "PortfolioRiskManager", capital |-> c,
                     max_positions |-> n, percent |-> l]
       \/ \E c \in CalculatorCapitals, r \in RiskPercents :
            input = [class |-> "RiskCalculator", capital |-> c,
                     max_positions |-> 0, percent |-> r]
    /\ output = NotCalled

ConstructLedger ==
    /\ input.class = "PortfolioRiskManager"
    /\ output = NotCalled
    /\ output' = PortfolioRiskManager_init(input.capital, input.max_positions,
                                           input.percent)
    /\ UNCHANGED <<input, ledger_vars, webhook_vars>>

ConstructCalculator ==
    /\ input.class = "RiskCalculator"
    /\ output = NotCalled
    /\ output' = RiskCalculator_init(input.capital, input.percent)
    /\ UNCHANGED <<input, ledger_vars, webhook_vars>>

NextConstruct == ConstructLedger \/ ConstructCalculator

SpecConstruct == InitConstruct /\ [][NextConstruct]_vars

(***************************************************************************)
(* RiskCalculator.  Risk fractions are counted in units of 1/10000 and     *)
(* max_position_percent in units of 1/100.  The capitals drawn are ones   *)
(* whose binary64 product with each of the six risk fractions is an exact  *)
(* integer (250000 * 0.0175 = 4375.0, while 200000 * 0.0175 is             *)
(* 3500.0000000000005), and the prices, points and lot sizes are integers, *)
(* so that every amount the source computes for them is the integer        *)
(* computed here.  int() truncates toward zero.                            *)
(***************************************************************************)
ConvictionLevel ==
    <<"below_low", "low", "medium", "high", "above_high", "highest">>
Convictions == {ConvictionLevel[i] : i \in 1..Len(ConvictionLevel)}

CONVICTION_RISK_MAP ==
    [c \in Convictions |->
        CASE c = "below_low" -> 25
          [] c = "low" -> 50
          [] c = "medium" -> 100
          [] c = "high" -> 150
          [] c = "above_high" -> 175
          [] c = "highest" -> 200]

SizingCapitals == {250000, 500000}
MaxRiskPercents == {100, 200}
EquityEntries == {0, 100, 3950}
EquityStops == {0, 100, 3850}
MaxPositionPercents == {-30, 0, 30}
FoEntries == {0, 5, 7780}
FoStopPoints == {0, 1, 10}
FoLotSizes == {0, 1, 250}

\* int(a / b) for b > 0
int_div(a, b) == IF a >= 0 THEN a \div b ELSE 0 - ((0 - a) \div b)
min(a, b) == IF a <= b THEN a ELSE b

\* RiskCalculator.get_risk_percent: the table entry, whatever
\* self.max_risk_percent is
get_risk_percent(calc, conviction) == CONVICTION_RISK_MAP[conviction]

\* self.capital * risk_percent
risk_amount_of(calc, conviction) ==
    (calc.capital * get_risk_percent(calc, conviction)) \div 10000

calculate_position_size_equity(calc, entry_price, stop_loss, conviction, max_position_percent) ==
    IF entry_price <= 0 THEN Raise("ValueError")
    ELSE IF stop_loss <= 0 THEN Raise("ValueError")
    ELSE IF entry_price = stop_loss THEN Raise("ValueError")
    ELSE
      LET risk_per_share == Abs(entry_price - stop_loss)
          risk_percent == get_risk_percent(calc, conviction)
          risk_amount == risk_amount_of(calc, conviction)
          max_shares_by_risk == int_div(risk_amount, risk_per_share)
          max_investment == (calc.capital * max_position_percent) \div 100
          max_shares_by_entry == int_div(max_investment, entry_price)
          final_quantity == min(max_shares_by_risk, max_shares_by_entry)
      IN Return([risk_percent |-> risk_percent,
                 risk_amount |-> risk_amount,
                 entry_price |-> entry_price,
                 stop_loss |-> stop_loss,
                 risk_per_unit |-> risk_per_share,
                 max_quantity_by_risk |-> max_shares_by_risk,
                 max_quantity_by_entry |-> max_shares_by_entry,
                 final_quantity |-> final_quantity,
                 total_investment |-> final_quantity * entry_price,
                 actual_risk_amount |-> final_quantity * risk_per_share])

calculate_position_size_fo(calc, entry_price, stop_loss_points, lot_size, conviction) ==
    IF entry_price <= 0 THEN Raise("ValueError")
    ELSE IF stop_loss_points <= 0 THEN Raise("ValueError")
    ELSE IF lot_size <= 0 THEN Raise("ValueError")
    ELSE
      LET risk_per_lot == stop_loss_points * lot_size
          risk_percent == get_risk_percent(calc, conviction)
          risk_amount == risk_amount_of(calc, conviction)
          max_lots_by_risk == int_div(risk_amount, risk_per_lot)
          max_lots_by_entry == 999
          final_lots == min(max_lots_by_risk, max_lots_by_entry)
          final_quantity == final_lots * lot_size
      IN Return([risk_percent |-> risk_percent,
                 risk_amount |-> risk_amount,
                 entry_price |-> entry_price,
                 stop_loss |-> entry_price - stop_loss_points,
                 risk_per_unit |-> risk_per_lot,
                 max_quantity_by_risk |-> max_lots_by_risk,
                 max_quantity_by_entry |-> max_lots_by_entry,
                 final_quantity |-> final_quantity,
                 total_investment |-> entry_price * final_quantity,
                 actual_risk_amount |-> final_lots * risk_per_lot])

Calculators ==
    {RiskCalculator_init(c, m).value :
        c \in SizingCapitals, m \in MaxRiskPercents}

(* validate_risk_reward: prices are whole rupees, min_rr_ratio is in tenths
   (25 is the default 2.5).  The returned rr_ratio is the quotient
   reward / risk, kept as the pair of its numerator and denominator; the
   comparison rr_ratio >= min_rr_ratio is made by cross-multiplication, which
   agrees with the binary64 comparison because the quotient is correctly
   rounded and every min_rr_ratio drawn here is a binary64 number. *)
RrEntries == {100}
RrStops == {90, 100, 110}
RrTargets == {75, 100, 124, 125, 126}
MinRrRatios == {20, 25}

validate_risk_reward_strict(entry_price, stop_loss, target_price, min_rr_ratio) ==
    LET risk == Abs(entry_price - stop_loss)
        reward == Abs(target_price - entry_price)
    IN  IF risk = 0
        THEN Return([is_valid |-> FALSE, rr_ratio |-> [num |-> 0, den |-> 1]])
        ELSE Return([is_valid |-> reward * 10 > min_rr_ratio * risk,
                     rr_ratio |-> [num |-> reward, den |-> risk]])

validate_risk_reward(entry_price, stop_loss, target_price, min_rr_ratio) ==
    LET risk == Abs(entry_price - stop_loss)
        reward == Abs(target_price - entry_price)
    IN  IF risk = 0
        THEN Return([is_valid |-> FALSE, rr_ratio |-> [num |-> 0, den |-> 1]])
        ELSE Return([is_valid |-> reward * 10 >= min_rr_ratio * risk,
                     rr_ratio |-> [num |-> reward, den |-> risk]])

get_risk_amount_capped(calc, conviction) ==
    (calc.capital * min(get_risk_percent(calc, conviction), calc.max_risk_percent)) \div 10000

get_risk_amount(calc, conviction) ==
    (calc.capital * get_risk_percent(calc, conviction)) \div 10000

InitSizing ==
    /\ LedgerIdle
    /\ WebhookIdle
    /\ \E calc \in Calculators, c \in Convictions :
         \/ input = [op |-> "get_risk_percent", calc |-> calc,
                     conviction |-> c]
         \/ \E e \in EquityEntries, sl \in EquityStops,
               mp \in MaxPositionPercents :
              input = [op |-> "calculate_position_size_equity",
                       calc |-> calc, conviction |-> c, entry_price |-> e,
                       stop_loss |-> sl, max_position_percent |-> mp]
         \/ \E e \in FoEntries, pts \in FoStopPoints, lot \in FoLotSizes :
              input = [op |-> "calculate_position_size_fo",
                       calc |-> calc, conviction |-> c, entry_price |-> e,
                       stop_loss_points |-> pts, lot_size |-> lot]
         \/ input = [op |-> "get_risk_amount", calc |-> calc,
                     conviction |-> c]
         \/ \E e \in RrEntries, sl \in RrStops, t \in RrTargets,
               m \in MinRrRatios :
              input = [op |-> "validate_risk_reward", calc |-> calc,
                       entry_price |-> e, stop_loss |-> sl,
                       target_price |-> t, min_rr_ratio |-> m]
    /\ output = NotCalled

GetRiskPercent ==
    /\ input.op = "get_risk_percent"
    /\ output = NotCalled
    /\ output' = Return([risk_percent |->
                            get_risk_percent(input.calc, input.conviction)])
    /\ UNCHANGED <<input, ledger_vars, webhook_vars>>

CalculatePositionSizeEquity ==
    /\ input.op = "calculate_position_size_equity"
    /\ output = NotCalled
    /\ output' = calculate_position_size_equity(
                     input.calc, input.entry_price, input.stop_loss,
                     input.conviction, input.max_position_percent)
    /\ UNCHANGED <<input, ledger_vars, webhook_vars>>

CalculatePositionSizeFo ==
    /\ input.op = "calculate_position_size_fo"
    /\ output = NotCalled
    /\ output' = calculate_position_size_fo(
                     input.calc, input.entry_price, input.stop_loss_points,
                     input.lot_size, input.conviction)
    /\ UNCHANGED <<input, ledger_vars, webhook_vars>>

GetRiskAmount ==
    /\ input.op = "get_risk_amount"
    /\ output = NotCalled
    /\ output' = Return([risk_amount |->
                            get_risk_amount(input.calc, input.conviction)])
    /\ UNCHANGED <<input, ledger_vars, webhook_vars>>

ValidateRiskReward ==
    /\ input.op = "validate_risk_reward"
    /\ output = NotCalled
    /\ output' = validate_risk_reward(
                     input.entry_price, input.stop_loss, input.target_price,
                     input.min_rr_ratio)
    /\ UNCHANGED <<input, ledger_vars, webhook_vars>>

NextSizing ==
    \/ GetRiskPercent
    \/ CalculatePositionSizeEquity
    \/ CalculatePositionSizeFo
    \/ GetRiskAmount
    \/ ValidateRiskReward

SpecSizing == InitSizing /\ [][NextSizing]_vars

(***************************************************************************)
(* The validation pipeline: POST /webhook hands each parsed signal to       *)
(* StrategyValidator.validate_trade, which shares one ledger with every     *)
(* request.  A signal carries prices in whole rupees; 0 stands for a        *)
(* missing stop or target.  The share count of step 2 is drawn (its         *)
(* computation is the subject of the sizing specification, where it is     *)
(* never negative for the default max_position_percent).  A field of the   *)
(* decision that was not set is None.  input is the signal of the last      *)
(* request and output the decision returned for it, together with the       *)
(* number of approvals returned so far on the ledger's current day.         *)
(***************************************************************************)
MaxApprovals == 3
SignalActions == {"BUY", "SELL", "CLOSE", "CLOSE_ALL"}
SignalPrices == {10}
SignalStops == {0, 8, 10, 12}
SignalTargets == {0, 5, 14, 15}
AllocatedQuantities == {0, 1, 2, 5}
min_rr_ratio == 25

Signals ==
    [symbol : Symbols, action : SignalActions, price : SignalPrices,
     stop_loss : SignalStops, target : SignalTargets]

validate_signal_completeness(signal) ==
    IF signal.stop_loss = 0 THEN FALSE
    ELSE IF signal.target = 0 THEN FALSE
    ELSE IF signal.action = "BUY"
         THEN ~(signal.stop_loss >= signal.price)
              /\ ~(signal.target <= signal.price)
    ELSE IF signal.action = "SELL"
         THEN ~(signal.stop_loss <= signal.price)
              /\ ~(signal.target >= signal.price)
    ELSE TRUE

\* a sizing step that would pass an allocation of 0 shares on
calculate_position_passing_zero(signal, quantity) ==
    IF \/ signal.price <= 0
       \/ signal.stop_loss <= 0
       \/ signal.price = signal.stop_loss
    THEN [success |-> FALSE, reason |-> "CALCULATION_ERROR"]
    ELSE [success |-> TRUE, reason |-> "-"]

\* step 2: the ValueError of calculate_position_size_equity is caught and
\* an allocation of 0 shares is refused
calculate_position(signal, quantity) ==
    IF \/ signal.price <= 0
       \/ signal.stop_loss <= 0
       \/ signal.price = signal.stop_loss
    THEN [success |-> FALSE, reason |-> "CALCULATION_ERROR"]
    ELSE IF quantity = 0
    THEN [success |-> FALSE, reason |-> "ZERO_SIZE"]
    ELSE [success |-> TRUE, reason |-> "-"]

TradeDecision(approved, reason, position_size, risk_reward_ratio, rr_valid, portfolio_check, approved_today) ==
    [approved |-> approved, reason |-> reason,
     position_size |-> position_size,
     risk_reward_ratio |-> risk_reward_ratio, rr_valid |-> rr_valid,
     portfolio_check |-> portfolio_check,
     approved_today |-> approved_today]

InitPipeline ==
    /\ LedgerIdle
    /\ WebhookIdle
    /\ input = << >>
    /\ output = TradeDecision(FALSE, "-", None, None, None, None, 0)

validate_trade(signal, quantity) ==
    LET total_investment == quantity * signal.price
        sized == calculate_position(signal, quantity)
        rr == validate_risk_reward(signal.price, signal.stop_loss,
                                   signal.target, min_rr_ratio).value
        so_far == IF ret.op = "midnight" THEN 0 ELSE output.approved_today
    IN /\ so_far < MaxApprovals
       /\ input' = signal
       /\ UNCHANGED webhook_vars
       /\ IF ~validate_signal_completeness(signal)
          THEN /\ output' = TradeDecision(FALSE, "INCOMPLETE", None, None,
                                          None, None, so_far)
               /\ UNCHANGED ledger_vars
          ELSE IF ~sized.success
          THEN /\ output' = TradeDecision(FALSE, sized.reason, None, None,
                                          None, None, so_far)
               /\ UNCHANGED ledger_vars
          ELSE IF ~rr.is_valid
          THEN /\ output' = TradeDecision(FALSE, "RISK_REWARD",
                                Some(quantity), Some(rr.rr_ratio),
                                Some(FALSE), None, so_far)
               /\ UNCHANGED ledger_vars
          ELSE LET r == can_take_trade_result(signal.symbol,
                            total_investment, get_sector(signal.symbol))
               IN /\ ledger_can_take_trade(signal.symbol, total_investment,
                                           get_sector(signal.symbol))
                  /\ output' = TradeDecision(r.allowed,
                                   IF r.allowed THEN "APPROVED"
                                                ELSE r.reason,
                                   Some(quantity), Some(rr.rr_ratio),
                                   Some(TRUE), Some(r.allowed),
                                   IF r.allowed THEN so_far + 1 ELSE so_far)

receive_webhook ==
    \E signal \in Signals, quantity \in AllocatedQuantities :
        validate_trade(signal, quantity)

NextPipeline ==
    \/ Tick
    \/ receive_webhook

SpecPipeline == InitPipeline /\ [][NextPipeline]_vars

(***************************************************************************)
(* Several callers of one ledger.  Each caller runs can_take_trade and,     *)
(* when it was accepted, add_position for the same proposal; every call is  *)
(* atomic, the pair is not.  input holds, per caller, the accepted proposal *)
(* it has not opened yet; output records whether some admission was         *)
(* accepted while another caller still held one (history).                  *)
(***************************************************************************)
Callers == {"a", "b"}
NoProposal == [symbol |-> "-", quantity |-> 0, entry_price |-> 0]

InitCallers ==
    /\ LedgerIdle
    /\ WebhookIdle
    /\ input = [c \in Callers |-> NoProposal]
    /\ output = [interleaved |-> FALSE]

CallerAdmit(c) ==
    \E s \in Symbols, p \in EntryPrices :
      \E q \in quantities_of(s) :
        LET r == can_take_trade_result(s, Abs(q) * p, get_sector(s))
            others == \E d \in Callers \ {c} : input[d] # NoProposal
        IN /\ input[c] = NoProposal
           /\ UNCHANGED webhook_vars
           /\ ledger_can_take_trade(s, Abs(q) * p, get_sector(s))
           /\ input' = [input EXCEPT ![c] =
                           IF r.allowed
                           THEN [symbol |-> s, quantity |-> q,
                                 entry_price |-> p]
                           ELSE NoProposal]
           /\ output' = [interleaved |->
                            output.interleaved \/ (r.allowed /\ others)]

CallerOpen(c) ==
    /\ input[c] # NoProposal
    /\ ledger_add_position(input[c].symbol, input[c].quantity,
                           input[c].entry_price, get_sector(input[c].symbol))
    /\ input' = [input EXCEPT ![c] = NoProposal]
    /\ UNCHANGED <<output, webhook_vars>>

Admit == \E c \in Callers : CallerAdmit(c)
Open == \E c \in Callers : CallerOpen(c)

NextCallers ==
    \/ Tick
    \/ Admit
    \/ Open
    \/ RemovePosition

SpecCallers == InitCallers /\ [][NextCallers]_vars

(***************************************************************************)
(* check_correlation.  The ledger is filled and emptied with symbols of the *)
(* fixed lists and of none, and queried for those and for symbols never     *)
(* held; input is the queried symbol and output the answer of the last      *)
(* check_correlation call.                                                  *)
(***************************************************************************)
bank_stocks == {"HDFCBANK", "ICICIBANK", "SBIN", "KOTAKBANK", "AXISBANK"}
it_stocks == {"TCS", "INFY", "WIPRO", "HCLTECH", "TECHM"}
auto_stocks == {"MARUTI", "TATAMOTORS", "M&M", "BAJAJ-AUTO", "EICHERMOT"}
CorrelationSymbols == {"HDFCBANK", "ICICIBANK", "ITC", "TCS"}
QuerySymbols == CorrelationSymbols \cup {"INFY", "MARUTI"}

\* a check that would not count the queried symbol's own open position
check_correlation_others(positions, symbol) ==
    LET held(group) ==
            /\ symbol \in group
            /\ \E existing_symbol \in DOMAIN positions \ {symbol} :
                  existing_symbol \in group
    IN  IF held(bank_stocks) THEN [is_correlated |-> TRUE, group |-> "Banking"]
        ELSE IF held(it_stocks) THEN [is_correlated |-> TRUE, group |-> "IT"]
        ELSE IF held(auto_stocks)
        THEN [is_correlated |-> TRUE, group |-> "Auto"]
        ELSE [is_correlated |-> FALSE, group |-> "-"]

check_correlation(positions, symbol) ==
    LET held(group) ==
            /\ symbol \in group
            /\ \E existing_symbol \in DOMAIN positions :
                  existing_symbol \in group
    IN  IF held(bank_stocks) THEN [is_correlated |-> TRUE, group |-> "Banking"]
        ELSE IF held(it_stocks) THEN [is_correlated |-> TRUE, group |-> "IT"]
        ELSE IF held(auto_stocks)
        THEN [is_correlated |-> TRUE, group |-> "Auto"]
        ELSE [is_correlated |-> FALSE, group |-> "-"]

InitCorrelation ==
    /\ LedgerIdle
    /\ WebhookIdle
    /\ input = [op |-> "-", symbol |-> "-"]
    /\ output = NotCalled

CheckCorrelation ==
    \E symbol \in QuerySymbols :
        /\ input' = [op |-> "check_correlation", symbol |-> symbol]
        /\ output' = Return(check_correlation(active_positions, symbol))
        /\ UNCHANGED <<ledger_vars, webhook_vars>>

CorrelationOpen ==
    \E s \in CorrelationSymbols, p \in EntryPrices :
        \E q \in quantities_of(s) : add_position(s, q, p, NoSector)

CorrelationClose ==
    \E s \in CorrelationSymbols, p \in EntryPrices : remove_position(s, p)

NextCorrelation ==
    \/ Tick
    \/ CheckCorrelation
    \/ CorrelationOpen
    \/ CorrelationClose

SpecCorrelation == InitCorrelation /\ [][NextCorrelation]_vars

(***************************************************************************)
(* The webhook handler.  The clock counts ticks, Window of them making the  *)
(* 60 seconds of check_rate_limit.  A request carries the client address,   *)
(* the X-API-Key header, the payload (its body and its api_key field) and   *)
(* the X-Signature header; "" is an absent address or key and None an       *)
(* absent signature.  HMAC-SHA256 is the pair of the secret and the         *)
(* serialized payload: two signatures are equal exactly when both agree.    *)
(* input is the last request and output the answer of validate_request.     *)
(***************************************************************************)
MaxNow == 2
\* the 60 seconds of check_rate_limit, in ticks of the clock
Window == 2
RateLimits == {2}
Secrets == {"", "secret"}
AllowedIps == {{}, {"10.0.0.1"}}
IpAddresses == {"", "10.0.0.1", "10.0.0.2"}
HeaderKeys == {"", "key", "wrong"}
PayloadKeys == {"", "key"}

hmac_sha256(secret, payload) == <<secret, payload>>

Payloads == [api_key : PayloadKeys, body : {"signal"}]
SignaturesOf(payload) ==
    {None, hmac_sha256("secret", payload), hmac_sha256("guess", payload)}

WebhookHandler_init(api_key, webhook_secret, allowed_ips, rate_limit_per_minute, validate_signatures) ==
    [api_key |-> api_key, webhook_secret |-> webhook_secret,
     allowed_ips |-> allowed_ips,
     rate_limit_per_minute |-> rate_limit_per_minute,
     validate_signatures |-> validate_signatures,
     request_timestamps |-> << >>]

validate_api_key(h, provided_key) == h.api_key = provided_key

validate_signature(h, payload, signature) ==
    IF ~h.validate_signatures \/ h.webhook_secret = "" THEN TRUE
    ELSE hmac_sha256(h.webhook_secret, payload) = signature

younger(t, ts) == t - ts < Window

\* a rate limit that would also record the request it refuses
check_rate_limit_recording(h, t) ==
    LET kept == SelectSeq(h.request_timestamps, LAMBDA ts : younger(t, ts))
    IN  IF Len(kept) >= h.rate_limit_per_minute
        THEN [allowed |-> FALSE, request_timestamps |-> Append(kept, t)]
        ELSE [allowed |-> TRUE, request_timestamps |-> Append(kept, t)]

check_rate_limit(h, t) ==
    LET kept == SelectSeq(h.request_timestamps, LAMBDA ts : younger(t, ts))
    IN  IF Len(kept) >= h.rate_limit_per_minute
        THEN [allowed |-> FALSE, request_timestamps |-> kept]
        ELSE [allowed |-> TRUE, request_timestamps |-> Append(kept, t)]

check_ip_whitelist(h, ip_address) ==
    IF h.allowed_ips = {} THEN TRUE ELSE ip_address \in h.allowed_ips

\* a validation that would authenticate before it takes the rate-limit slot
validate_request_result_auth_first(h, rate, request) ==
    LET api_key == IF request.header_key # "" THEN request.header_key
                   ELSE request.payload.api_key
    IN  IF request.ip_address # ""
           /\ ~check_ip_whitelist(h, request.ip_address)
        THEN [reason |-> "IP_NOT_WHITELISTED", valid |-> FALSE]
        ELSE IF api_key = ""
        THEN [reason |-> "API_KEY_REQUIRED", valid |-> FALSE]
        ELSE IF ~validate_api_key(h, api_key)
        THEN [reason |-> "INVALID_API_KEY", valid |-> FALSE]
        ELSE IF /\ h.validate_signatures
                /\ request.signature # None
                /\ ~validate_signature(h, request.payload, request.signature)
        THEN [reason |-> "INVALID_SIGNATURE", valid |-> FALSE]
        ELSE IF ~rate.allowed
        THEN [reason |-> "RATE_LIMIT", valid |-> FALSE]
        ELSE [reason |-> "OK", valid |-> TRUE]

\* the answer of validate_request, rate being what check_rate_limit returned
validate_request_result(h, rate, request) ==
    LET api_key == IF request.header_key # "" THEN request.header_key
                   ELSE request.payload.api_key
    IN  IF ~rate.allowed
        THEN [reason |-> "RATE_LIMIT", valid |-> FALSE]
        ELSE IF request.ip_address # ""
                /\ ~check_ip_whitelist(h, request.ip_address)
        THEN [reason |-> "IP_NOT_WHITELISTED", valid |-> FALSE]
        ELSE IF api_key = ""
        THEN [reason |-> "API_KEY_REQUIRED", valid |-> FALSE]
        ELSE IF ~validate_api_key(h, api_key)
        THEN [reason |-> "INVALID_API_KEY", valid |-> FALSE]
        ELSE IF /\ h.validate_signatures
                /\ request.signature # None
                /\ ~validate_signature(h, request.payload, request.signature)
        THEN [reason |-> "INVALID_SIGNATURE", valid |-> FALSE]
        ELSE [reason |-> "OK", valid |-> TRUE]

validate_request(request) ==
    LET rate == check_rate_limit(handler, now)
    IN /\ handler' = [handler EXCEPT
                         !.request_timestamps = rate.request_timestamps]
       /\ accepted_at' =
            IF rate.allowed
            THEN Append(accepted_at,
                        [valid |-> validate_request_result(
                                       handler, rate, request).valid,
                         at |-> now])
            ELSE accepted_at
       /\ input' = request
       /\ output' = validate_request_result(handler, rate, request)
       /\ UNCHANGED <<now, ledger_vars>>

InitWebhook ==
    /\ LedgerIdle
    /\ \E secret \in Secrets, ips \in AllowedIps, limit \in RateLimits,
          signed \in BOOLEAN :
         handler = WebhookHandler_init("key", secret, ips, limit, signed)
    /\ now = 0
    /\ accepted_at = << >>
    /\ input = << >>
    /\ output = [reason |-> "-", valid |-> FALSE]

\* the wall clock advances by one tick
Elapse ==
    /\ now < MaxNow
    /\ now' = now + 1
    /\ UNCHANGED <<handler, accepted_at, input, output, ledger_vars>>

ValidateRequest ==
    \E ip \in IpAddresses, key \in HeaderKeys, payload \in Payloads :
      \E signature \in SignaturesOf(payload) :
        validate_request([payload |-> payload, signature |-> signature,
                          ip_address |-> ip, header_key |-> key])

NextWebhook ==
    \/ Elapse
    \/ ValidateRequest

SpecWebhook == InitWebhook /\ [][NextWebhook]_vars

TypeOK ==
    /\ new_day \in BOOLEAN
    /\ daily_loss \in Nat
    /\ daily_profit \in Nat
    /\ trades_today \in 0..MaxOpens
    /\ DOMAIN active_positions \subseteq Symbols
(***************************************************************************)
(* Properties of the ledger.                                               *)
(***************************************************************************)
check1_fails == Cardinality(DOMAIN active_positions) >= max_positions
check2_fails ==
    reset_loss * max_daily_loss_percent_den
        >= initial_capital * max_daily_loss_percent_num
check3_fails == reset_trades >= max_trades_per_day
check4_fails(value) == value > capital - used_capital(active_positions)
check5_fails(value, sector) ==
    /\ sector # NoSector
    /\ (calculate_sector_exposure(active_positions, sector) + value)
           * max_sector_exposure_percent_den
       > capital * max_sector_exposure_percent_num

Proposals == Symbols \X Values \X SectorArgs
Notionals == AdmitSymbols \X Values \X SectorArgs
Result(x) == can_take_trade_result(x[1], x[2], x[3])
called_today(op) == ret.op = op

\* C1: can_take_trade returns the reason of the first failing check in the
\* order max-positions, daily-loss, max-trades-per-day, available-capital,
\* sector-exposure; when the max-positions and the daily-loss check both
\* fail the reason is the max-positions one, never the daily-loss one.  The
\* reason a call returned agrees with the state it was evaluated on.
C1_AdmissionOrder ==
    /\ \A x \in Notionals :
         LET r == Result(x)
             v == x[2]
             sec == x[3]
         IN /\ (check1_fails /\ check2_fails) => r.reason = "MAX_POSITIONS"
            /\ r.reason = "MAX_POSITIONS" <=> check1_fails
            /\ r.reason = "DAILY_LOSS" <=> (~check1_fails /\ check2_fails)
            /\ r.reason = "MAX_TRADES" <=>
                 (~check1_fails /\ ~check2_fails /\ check3_fails)
            /\ r.reason = "INSUFFICIENT_CAPITAL" <=>
                 (~check1_fails /\ ~check2_fails /\ ~check3_fails
                  /\ check4_fails(v))
            /\ r.reason = "SECTOR_EXPOSURE" <=>
                 (~check1_fails /\ ~check2_fails /\ ~check3_fails
                  /\ ~check4_fails(v) /\ check5_fails(v, sec))
            /\ r.allowed <=> r.reason = "PASSED"
    /\ called_today("can_take_trade") =>
         /\ ret.reason = "MAX_POSITIONS" <=> check1_fails
         /\ ret.reason = "DAILY_LOSS" => check2_fails
         /\ ret.reason = "MAX_TRADES" => (~check2_fails /\ check3_fails)
         /\ ret.reason \in {"INSUFFICIENT_CAPITAL", "SECTOR_EXPOSURE", "PASSED"}
              => (~check2_fails /\ ~check3_fails)

C1_Witness ==
    /\ called_today("can_take_trade")
    /\ ret.reason = "MAX_POSITIONS"
    /\ check1_fails
    /\ check2_fails

\* C2: with a single caller that calls add_position only as the call right
\* after a can_take_trade that returned true, the number of open positions
\* never exceeds max_positions (specification SpecAdmitted).
C2_PositionsWithinLimit ==
    Cardinality(DOMAIN active_positions) <= max_positions

C2_Witness ==
    /\ ret.op = "add_position"
    /\ ret.allowed
    /\ Cardinality(DOMAIN active_positions) = max_positions
    /\ trades_today = 1

\* C3: whenever max_positions or more positions are open, can_take_trade
\* returns (false, max-positions reason) for every symbol, every proposed
\* notional (0 included) and every sector (none included).
C3_FullLedgerRejectsAll ==
    Cardinality(DOMAIN active_positions) >= max_positions =>
        \A x \in Proposals :
            Result(x) = [allowed |-> FALSE, reason |-> "MAX_POSITIONS"]

C3_Witness ==
    /\ called_today("can_take_trade")
    /\ ret = Ret("can_take_trade", FALSE, "MAX_POSITIONS", 0)
    /\ Cardinality(DOMAIN active_positions) = max_positions
    /\ daily_loss = 0
    /\ trades_today < max_trades_per_day

\* C4: trades_today counts the successful opens of the calendar day (one per
\* open, never reduced by a close); once max_trades_per_day positions were
\* opened on a day, can_take_trade returns (false, max-trades reason) in
\* every state of that day in which neither the position cap nor the loss
\* cap is hit, also when all those positions were closed at a profit.
C4_TradesPerDay ==
    /\ reset_trades = opens_on_day
    /\ (/\ opens_on_day >= max_trades_per_day
        /\ ~check1_fails
        /\ ~check2_fails)
       => \A x \in Notionals :
            Result(x) = [allowed |-> FALSE, reason |-> "MAX_TRADES"]

C4_Witness ==
    /\ called_today("can_take_trade")
    /\ ret.reason = "MAX_TRADES"
    /\ opens_on_day = max_trades_per_day
    /\ active_positions = << >>
    /\ daily_loss = 0
    /\ daily_profit > 0

\* C5: once a close has brought daily_loss / initial_capital to or above
\* max_daily_loss_percent, every can_take_trade of the same calendar day
\* returns false (with the daily-loss reason when fewer than max_positions
\* positions are open).
C5_LossCapBlocksDay ==
    cap_hit_on_day =>
        \A x \in Notionals :
            /\ ~Result(x).allowed
            /\ ~check1_fails => Result(x).reason = "DAILY_LOSS"

\* C6 as stated: a realized loss exactly equal to the cap still permits new
\* trades, can_take_trade does not reject with the daily-loss reason.
loss_equals_cap ==
    reset_loss * max_daily_loss_percent_den
        = initial_capital * max_daily_loss_percent_num

C6_EqualLossPermits ==
    loss_equals_cap =>
        \A x \in Notionals : Result(x).reason # "DAILY_LOSS"

\* C6 amended: a realized loss exactly equal to the cap blocks new trades;
\* in that state can_take_trade admits nothing and rejects with the
\* daily-loss reason whenever fewer than max_positions positions are open.
C6_EqualLossBlocks ==
    loss_equals_cap =>
        \A x \in Notionals :
            /\ ~Result(x).allowed
            /\ ~check1_fails => Result(x).reason = "DAILY_LOSS"

C6_Witness ==
    /\ called_today("can_take_trade")
    /\ ret.reason = "DAILY_LOSS"
    /\ loss_equals_cap
    /\ daily_loss > 0

\* C7: can_take_trade, add_position, remove_position and
\* get_portfolio_summary each reset the daily fields and store the date
\* before doing their work when the date has changed, so after any of them
\* the stored date is the date of the call, and after an admission check
\* daily_loss is the loss realized by the closes of that calendar day.
C7_EveryCallResetsFirst ==
    /\ ret.op \in {"can_take_trade", "add_position", "remove_position",
                  "get_portfolio_summary"}
       => ~new_day
    /\ called_today("can_take_trade") => daily_loss = loss_on_day

C9_DuplicateOpenIsNoOp ==
    [][called_today("add_position")' =>
         \A s \in DOMAIN active_positions, q \in Quantities, p \in EntryPrices :
            add_position(s, q, p, get_sector(s))
            => /\ active_positions' = active_positions
               /\ trades_today' = reset_trades
               /\ todays_trades' = reset_log
               /\ daily_loss' = reset_loss
               /\ daily_profit' = reset_profit]_vars

C9_Witness ==
    /\ ret.op = "add_position"
    /\ ~ret.allowed
    /\ \E s \in DOMAIN active_positions :
         active_positions[s].current_price # active_positions[s].entry_price
    /\ trades_today > 0

\* C10: remove_position for a symbol without a live position changes
\* nothing: positions, daily_loss, daily_profit, trades_today, the trade
\* records and the stored date stay as they are, for every exit price.
\* (Every remove_position step leaves ret as a remove_position record.)
C10_CloseUnknownIsNoOp ==
    [][called_today("remove_position")' =>
         \A s \in Symbols \ DOMAIN active_positions, p \in ExitPrices :
            remove_position(s, p)
            => UNCHANGED <<active_positions, daily_loss, daily_profit,
                           trades_today, todays_trades, new_day>>]_vars

C10_Witness ==
    /\ ret.op = "remove_position"
    /\ ~ret.allowed
    /\ new_day
    /\ active_positions # << >>
    /\ daily_loss > 0
    /\ trades_today > 0

\* C11: closing a live position realizes (exit - entry) * quantity for a
\* long and (entry - exit) * |quantity| otherwise; a negative P&L adds its
\* magnitude to daily_loss and leaves daily_profit, any other P&L adds to
\* daily_profit and leaves daily_loss; the position leaves the open set, the
\* other positions stay, and trades_today is unchanged.
C11_CloseRealizesPnl ==
    [][called_today("remove_position")' =>
         \A s \in DOMAIN active_positions, p \in ExitPrices :
            remove_position(s, p) =>
              LET pos == active_positions[s]
                  realized == IF pos.quantity > 0
                              THEN (p - pos.entry_price) * pos.quantity
                              ELSE (pos.entry_price - p) * Abs(pos.quantity)
              IN /\ ret'.pnl = realized
                 /\ realized < 0 =>
                      /\ daily_loss' = daily_loss + Abs(realized)
                      /\ daily_profit' = daily_profit
                 /\ realized >= 0 =>
                      /\ daily_profit' = daily_profit + realized
                      /\ daily_loss' = daily_loss
                 /\ DOMAIN active_positions' = DOMAIN active_positions \ {s}
                 /\ \A t \in DOMAIN active_positions' :
                      active_positions'[t] = active_positions[t]
                 /\ trades_today' = trades_today]_vars

\* a short closed above its entry price: a realized loss of 1
C11_Witness ==
    /\ ret.op = "remove_position"
    /\ ret.allowed
    /\ ret.pnl = -1
    /\ daily_loss >= 1
    /\ "ICICIBANK" \notin DOMAIN active_positions
    /\ trades_today > 0

\* C12: can_take_trade has no side effect beyond the lazy day reset: called
\* on the stored date it leaves the positions, trades_today, daily_loss,
\* daily_profit and the trade records unchanged whether it accepts or
\* rejects (capital is never assigned), and every proposal that gets the
\* answer this call returned gets the same (allowed, reason) when the call
\* is repeated in the state it leaves.
C12_AdmissionIsPure ==
    [][called_today("can_take_trade")' =>
         /\ active_positions' = active_positions
         /\ ~new_day =>
              UNCHANGED <<trades_today, daily_loss, daily_profit,
                          todays_trades, new_day>>
         /\ \A x \in Notionals :
              Result(x).reason = ret'.reason =>
                 Result(x)' =
                    [allowed |-> ret'.allowed, reason |-> ret'.reason]]_vars

\* an accepting call on a ledger with an open position, a trade of the day
\* and a realized profit
C12_Witness ==
    /\ called_today("can_take_trade")
    /\ ret.allowed
    /\ active_positions # << >>
    /\ trades_today = 1
    /\ daily_profit > 0
    /\ todays_trades # << >>

FundedValues == {Abs(q) * p : q \in FundedQuantities, p \in EntryPrices}

\* C13: can_take_trade returns true only if the proposed notional is at most
\* capital minus the notional of the open positions; so when every open
\* directly follows a successful can_take_trade for the notional of the
\* opened position and no price update is made, the notional of the open
\* positions never exceeds capital: the available capital of the summary is
\* never negative (specification SpecFunded).
C13_WithinCapital ==
    /\ \A v \in FundedValues, sec \in SectorArgs :
         can_take_trade_result("ITC", v, sec).allowed
            => v <= capital - used_capital(active_positions)
    /\ used_capital(active_positions) <= capital
    /\ capital - used_capital(active_positions) >= 0

\* a proposal is refused for lack of capital alone while a slot is free, and
\* the open positions use less than the capital
C13_Witness ==
    /\ called_today("can_take_trade")
    /\ ret.reason = "INSUFFICIENT_CAPITAL"
    /\ Cardinality(DOMAIN active_positions) = 1
    /\ used_capital(active_positions) = 20

\* the notional a symbol contributes to a sector: |quantity| * current_price
\* when it is open and tagged with the sector
tagged_notional(s, sector) ==
    IF s \in DOMAIN active_positions /\ active_positions[s].sector = sector
    THEN Abs(active_positions[s].quantity) * active_positions[s].current_price
    ELSE 0

sector_notional(sector) ==
    tagged_notional("HDFCBANK", sector) + tagged_notional("ICICIBANK", sector)
        + tagged_notional("ITC", sector)

\* C14: with a sector given, can_take_trade returns true only if the
\* notional of the open positions tagged with that sector plus the proposed
\* notional is at most capital * max_sector_exposure_percent, and it rejects
\* with the sector-exposure reason exactly when checks 1-4 pass and that
\* bound is exceeded; without a sector the check is skipped and a proposal
\* passing checks 1-4 is admitted.
C14_SectorExposure ==
    \A x \in Notionals :
        LET v == x[2]
            sec == x[3]
            r == Result(x)
            checks_1_4_pass == /\ ~check1_fails
                               /\ ~check2_fails
                               /\ ~check3_fails
                               /\ ~check4_fails(v)
            within == (sector_notional(sec) + v)
                          * max_sector_exposure_percent_den
                      <= capital * max_sector_exposure_percent_num
        IN /\ (sec # NoSector /\ r.allowed) => within
           /\ r.reason = "SECTOR_EXPOSURE" <=>
                (sec # NoSector /\ checks_1_4_pass /\ ~within)
           /\ (sec = NoSector /\ checks_1_4_pass) =>
                r = [allowed |-> TRUE, reason |-> "PASSED"]

\* a proposal that fits the capital is refused for its sector while the
\* open position of that sector alone is within the bound
C14_Witness ==
    /\ called_today("can_take_trade")
    /\ ret.reason = "SECTOR_EXPOSURE"
    /\ DOMAIN active_positions = {"ICICIBANK"}
    /\ sector_notional("Banking") = 11
    /\ can_take_trade_result("ITC", 22, NoSector).allowed

\* C15: in every reachable state can_trade_more of the summary is true
\* exactly when checks 2 and 3 of can_take_trade both pass in that state
\* (same thresholds, same strictness) (specification SpecLossCap).
C15_CanTradeMoreIsChecks ==
    (output.checks_pass # None /\ output.can_trade_more # None)
        => output.can_trade_more = output.checks_pass

\* C16: constructing a ledger raises at once, leaving no ledger, whenever
\* capital <= 0 or max_positions < 1 or max_daily_loss_percent is outside
\* (0, 0.05], and succeeds for every configuration inside those bounds
\* (0.05 accepted); constructing a RiskCalculator raises whenever
\* capital <= 0 or max_risk_percent is outside (0, 0.02] (specification
\* SpecConstruct).
C16_ConstructionValidates ==
    output.raised # "?" =>
        /\ input.class = "PortfolioRiskManager" =>
             LET invalid == \/ input.capital <= 0
                            \/ input.max_positions < 1
                            \/ input.percent <= 0
                            \/ input.percent > 500
             IN /\ invalid => output = Raise("ValueError")
                /\ ~invalid =>
                     /\ output.raised = "-"
                     /\ output.value.capital = input.capital
                     /\ output.value.max_positions = input.max_positions
                     /\ output.value.max_daily_loss_percent = input.percent
        /\ input.class = "RiskCalculator" =>
             LET invalid == \/ input.capital <= 0
                            \/ input.percent <= 0
                            \/ input.percent > 200
             IN invalid => output = Raise("ValueError")

\* a ledger was constructed with a loss cap of exactly 0.05
C16_Witness ==
    /\ input.class = "PortfolioRiskManager"
    /\ input.percent = 500
    /\ input.max_positions = 1
    /\ output.raised = "-"
    /\ output.value.max_daily_loss_percent = 500

returned(op) == input.op = op /\ output.raised = "-"

\* C17: the conviction-to-fraction mapping is total over the six ratings
\* and strictly increasing in enumeration order (25, 50, 100, 150, 175, 200
\* in units of 1/10000), and for a calculator constructed with the ceiling
\* max_risk_percent the risk fraction used by get_risk_percent and by both
\* sizing operations never exceeds that ceiling (specification SpecSizing).
C17_RiskWithinCeiling ==
    /\ DOMAIN CONVICTION_RISK_MAP = Convictions
    /\ \A i \in 1..(Len(ConvictionLevel) - 1) :
         CONVICTION_RISK_MAP[ConvictionLevel[i]]
            < CONVICTION_RISK_MAP[ConvictionLevel[i + 1]]
    /\ [i \in 1..Len(ConvictionLevel) |->
           CONVICTION_RISK_MAP[ConvictionLevel[i]]]
         = <<25, 50, 100, 150, 175, 200>>
    /\ (\/ returned("get_risk_percent")
        \/ returned("calculate_position_size_equity")
        \/ returned("calculate_position_size_fo")) =>
         output.value.risk_percent <= input.calc.max_risk_percent

\* C18: for every input accepted by calculate_position_size_equity (any
\* max_position_percent) final_quantity is
\* min(floor(risk_amount / |entry - stop|),
\*     floor(capital * max_position_percent / entry)),
\* a non-negative integer, and actual_risk_amount
\* = final_quantity * |entry - stop| <= risk_amount (specification
\* SpecSizing).
C18_EquityQuantity ==
    returned("calculate_position_size_equity") =>
        LET a == output.value
            risk == Abs(input.entry_price - input.stop_loss)
            by_risk == a.risk_amount \div risk
            by_entry ==
                (input.calc.capital * input.max_position_percent)
                    \div (100 * input.entry_price)
        IN /\ a.final_quantity = min(by_risk, by_entry)
           /\ a.final_quantity \in Nat
           /\ a.actual_risk_amount = a.final_quantity * risk
           /\ a.actual_risk_amount <= a.risk_amount

\* C19: for every input accepted by calculate_position_size_fo the lot
\* count is floor(risk_amount / (stop_loss_points * lot_size)) with no other
\* ceiling, final_quantity = lots * lot_size and actual_risk_amount
\* = lots * stop_loss_points * lot_size <= risk_amount (specification
\* SpecSizing).
C19_FoLots ==
    returned("calculate_position_size_fo") =>
        LET a == output.value
            lots == a.risk_amount
                        \div (input.stop_loss_points * input.lot_size)
        IN /\ a.final_quantity = lots * input.lot_size
           /\ a.actual_risk_amount
                = lots * input.stop_loss_points * input.lot_size
           /\ a.actual_risk_amount <= a.risk_amount

\* C20: every sizing result has all monetary fields non-negative (risk
\* amount, entry price, stop price, risk per unit, total investment, actual
\* risk amount) and final_quantity at most both reported bounds, lot trades
\* whose stop distance exceeds the entry price included (specification
\* SpecSizing).
C20_SizingResultSane ==
    (\/ returned("calculate_position_size_equity")
     \/ returned("calculate_position_size_fo")) =>
        LET a == output.value
        IN /\ a.risk_amount >= 0
           /\ a.entry_price >= 0
           /\ a.stop_loss >= 0
           /\ a.risk_per_unit >= 0
           /\ a.total_investment >= 0
           /\ a.actual_risk_amount >= 0
           /\ a.final_quantity <= a.max_quantity_by_risk
           /\ a.final_quantity <= a.max_quantity_by_entry

\* C21: validate_risk_reward called with entry_price = stop_loss (risk 0)
\* raises an identifiable DegenerateRisk error instead of returning an
\* ordinary (is_valid, rr_ratio) result (specification SpecSizing).
C21_DegenerateRiskRaises ==
    (/\ input.op = "validate_risk_reward"
     /\ output # NotCalled
     /\ input.entry_price = input.stop_loss)
        => output.raised = "DegenerateRisk"

\* C22: for entry_price # stop_loss validate_risk_reward returns
\* rr_ratio = |target_price - entry_price| / |entry_price - stop_loss| and
\* is_valid = (rr_ratio >= min_rr_ratio), equality passing; the ratio is in
\* the result whether the check passes or fails (specification SpecSizing).
C22_RiskRewardRatio ==
    (/\ input.op = "validate_risk_reward"
     /\ output # NotCalled
     /\ input.entry_price # input.stop_loss)
        => LET reward == Abs(input.target_price - input.entry_price)
               risk == Abs(input.entry_price - input.stop_loss)
           IN /\ output.raised = "-"
              /\ output.value.rr_ratio.den > 0
              /\ output.value.rr_ratio.num * risk
                    = reward * output.value.rr_ratio.den
              /\ output.value.is_valid
                    <=> (reward * 10 >= input.min_rr_ratio * risk)

\* the ratio equals the minimum exactly (25 / 10 = 2.5) and the check passes
C22_Witness ==
    /\ returned("validate_risk_reward")
    /\ input.entry_price = 100 /\ input.stop_loss = 90
    /\ input.target_price = 125 /\ input.min_rr_ratio = 25
    /\ output.value.is_valid
    /\ output.value.rr_ratio = [num |-> 25, den |-> 10]

C24_InvalidRaisesZeroReturns ==
    /\ (input.op = "calculate_position_size_equity" /\ output # NotCalled)
         => LET invalid == \/ input.entry_price <= 0
                           \/ input.stop_loss <= 0
                           \/ input.entry_price = input.stop_loss
                a == output.value
                risk == Abs(input.entry_price - input.stop_loss)
                small_risk == a.risk_amount < risk
                small_investment ==
                    input.calc.capital * input.max_position_percent
                        < 100 * input.entry_price
            IN /\ invalid => output = Raise("ValueError")
               /\ ~invalid =>
                    /\ output.raised = "-"
                    /\ (small_risk \/ small_investment)
                         => /\ a.final_quantity = 0
                            /\ a.total_investment = 0
                            /\ a.actual_risk_amount = 0
    /\ returned("calculate_position_size_fo")
         => LET a == output.value
            IN (a.risk_amount < input.stop_loss_points * input.lot_size)
                 => /\ a.final_quantity = 0
                    /\ a.total_investment = 0
                    /\ a.actual_risk_amount = 0

\* C25: in the validation pipeline every acceptance by can_take_trade is
\* followed by opening the approved position, so that approvals count
\* toward the open positions and trades_today; hence on one day at most
\* max_trades_per_day signals are approved, and at most max_positions while
\* none is closed (specification SpecPipeline).
C25_ApprovalsAreOpened ==
    (called_today("can_take_trade") /\ output.approved)
        => /\ input.symbol \in DOMAIN active_positions
           /\ trades_today = output.approved_today
           /\ output.approved_today <= max_trades_per_day
           /\ output.approved_today <= max_positions

\* C26: admit-then-open is not atomic as a unit.  With two callers whose
\* can_take_trade -> add_position sequences interleave (both admissions
\* before either open) a state with more than max_positions open positions,
\* or trades_today above max_trades_per_day, is reachable (the witness); as
\* long as no admission is accepted while another caller holds one, that
\* is, the sequences are serialized, both bounds hold, and two interleaving
\* callers exceed them by at most one (specification SpecCallers).
C26_SerializedCallersWithinLimits ==
    /\ ~output.interleaved =>
         /\ Cardinality(DOMAIN active_positions) <= max_positions
         /\ trades_today <= max_trades_per_day
    /\ Cardinality(DOMAIN active_positions)
         <= max_positions + Cardinality(Callers) - 1
    /\ trades_today <= max_trades_per_day + Cardinality(Callers) - 1

\* both callers were admitted with one position open and then both opened
C26_Witness ==
    /\ output.interleaved
    /\ ret.op = "add_position"
    /\ ret.allowed
    /\ Cardinality(DOMAIN active_positions) > max_positions
    /\ trades_today > max_trades_per_day

\* C27: a call check_correlation(symbol) returns true exactly when some open
\* position's symbol is in the same fixed list (banking, IT or auto) as the
\* queried symbol, and false when the symbol is in no list or no open
\* position shares its list; the call changes nothing on the ledger, and
\* so no answer of can_take_trade (specification SpecCorrelation).
C27_CorrelationBySharedGroup ==
    [][<<input, output>>' # <<input, output>> =>
         /\ output'.raised = "-"
         /\ output'.value.is_correlated <=>
              \E group \in {bank_stocks, it_stocks, auto_stocks} :
                 /\ input'.symbol \in group
                 /\ DOMAIN active_positions \cap group # {}
         /\ UNCHANGED ledger_vars
         /\ \A x \in Proposals : Result(x)' = Result(x)]_vars

\* HDFCBANK is found correlated with the open ICICIBANK, and can_take_trade
\* still accepts it
C27_Witness ==
    /\ returned("check_correlation")
    /\ input.symbol = "HDFCBANK"
    /\ output.value.is_correlated
    /\ DOMAIN active_positions = {"ICICIBANK"}
    /\ can_take_trade_result("HDFCBANK", 10, "Banking").allowed

\* C28: update_position_price(symbol, p) changes nothing for a symbol that is
\* not live; for a live position it sets that position's current price and
\* its unrealized P&L, which becomes the P&L remove_position would realize
\* at exit price p ((p - entry) * quantity for a long, (entry - p) *
\* |quantity| otherwise), and nothing else: daily_loss, daily_profit,
\* trades_today, the trade log, the stored date, the set of open symbols and
\* every other position are unchanged.
C28_UpdateTouchesOnePosition ==
    [][called_today("update_position_price")' =>
         \A s \in Symbols, p \in UpdatePrices :
            update_position_price(s, p) =>
              /\ UNCHANGED <<daily_loss, daily_profit, trades_today,
                             todays_trades, new_day>>
              /\ DOMAIN active_positions' = DOMAIN active_positions
              /\ \A t \in DOMAIN active_positions \ {s} :
                   active_positions'[t] = active_positions[t]
              /\ s \in DOMAIN active_positions =>
                   LET pos == active_positions[s]
                       realized ==
                           IF pos.quantity > 0
                           THEN (p - pos.entry_price) * pos.quantity
                           ELSE (pos.entry_price - p) * Abs(pos.quantity)
                   IN active_positions'[s] =
                        [quantity |-> pos.quantity,
                         entry_price |-> pos.entry_price,
                         current_price |-> p,
                         pnl |-> realized,
                         sector |-> pos.sector]]_vars

\* a short marked above its entry price carries an unrealized loss of 1,
\* next to a long that is still at its entry price; nothing is realized
C28_Witness ==
    /\ ret.op = "update_position_price"
    /\ DOMAIN active_positions = {"ICICIBANK", "ITC"}
    /\ active_positions["ICICIBANK"].current_price = 11
    /\ active_positions["ICICIBANK"].pnl = -1
    /\ active_positions["ITC"].current_price = 10
    /\ daily_loss = 0
    /\ trades_today = 2

\* C29: the lazy day reset, as run by can_take_trade and
\* get_portfolio_summary, keeps the open positions; on a date change it
\* zeroes daily_loss, daily_profit and trades_today and empties the trade
\* log (positions of earlier days still count toward max_positions and the
\* used capital, not toward trades_today); on the stored date it changes
\* nothing; and it is idempotent: after it has run, running it again for
\* the same date changes nothing.
C29_LazyResetIdempotent ==
    [][ret'.op \in {"can_take_trade", "get_portfolio_summary"} =>
         /\ active_positions' = active_positions
         /\ used_capital(active_positions') = used_capital(active_positions)
         /\ new_day =>
              /\ daily_loss' = 0
              /\ daily_profit' = 0
              /\ trades_today' = 0
              /\ todays_trades' = << >>
         /\ ~new_day =>
              UNCHANGED <<daily_loss, daily_profit, trades_today,
                          todays_trades>>
         /\ ~new_day'
         /\ reset_loss' = daily_loss'
         /\ reset_profit' = daily_profit'
         /\ reset_trades' = trades_today'
         /\ reset_log' = todays_trades']_vars

\* the first call of a new day: two positions of the day before still fill
\* the ledger while trades_today is back to 0
C29_Witness ==
    /\ ret = Ret("can_take_trade", FALSE, "MAX_POSITIONS", 0)
    /\ Cardinality(DOMAIN active_positions) = max_positions
    /\ opens_on_day = 0
    /\ trades_today = 0
    /\ todays_trades = << >>
    /\ ~new_day

\* C30: add_position performs no admission check of its own: for a symbol
\* that is not live it always inserts the position and increments
\* trades_today, whatever can_take_trade would answer, also when
\* max_positions or more positions are open, trades_today has reached
\* max_trades_per_day or a close has brought daily_loss to the cap; only
\* can_take_trade reports the block.
C30_AddPositionChecksNothing ==
    [][called_today("add_position")' =>
         \A s \in Symbols \ DOMAIN active_positions, q \in Quantities,
            p \in EntryPrices :
            add_position(s, q, p, get_sector(s)) =>
              /\ ret'.allowed
              /\ DOMAIN active_positions' = DOMAIN active_positions \cup {s}
              /\ active_positions'[s].quantity = q
              /\ trades_today' = reset_trades + 1
              /\ (check1_fails \/ check2_fails \/ check3_fails) =>
                   \A x \in Proposals : ~Result(x).allowed]_vars

\* a position is opened as the third trade of a day on which a close has
\* already brought daily_loss to the cap
C30_Witness ==
    /\ ret = Ret("add_position", TRUE, "ADDED", 0)
    /\ opens_on_day = 3
    /\ trades_today > max_trades_per_day
    /\ loss_limit_reached(daily_loss)
    /\ \A x \in Proposals : ~Result(x).allowed

\* C31: validate_trade runs signal completeness, position sizing,
\* risk:reward and the portfolio constraints in this order and returns the
\* reason of the first step that fails; a decision is approved only if all
\* four passed, so an approved decision has position_size >= 1, rr_valid
\* true with risk_reward_ratio >= min_rr_ratio and portfolio_check true; an
\* allocation of 0 shares or a sizing error gives a rejection
\* (specification SpecPipeline).
C31_FirstFailingStep ==
    input # << >> =>
      LET d == output
          complete == validate_signal_completeness(input)
          sizing_error == input.price = input.stop_loss
          sized == d.position_size # None /\ d.position_size[1] >= 1
          ratio == d.risk_reward_ratio[1]
          ratio_ok == ratio.num * 10 >= min_rr_ratio * ratio.den
      IN /\ d.reason = "INCOMPLETE" <=> ~complete
         /\ (complete /\ sizing_error) => d.reason = "CALCULATION_ERROR"
         /\ d.reason \in {"CALCULATION_ERROR", "ZERO_SIZE"} =>
              /\ complete /\ ~d.approved
              /\ d.position_size = None /\ d.rr_valid = None
              /\ d.portfolio_check = None
         /\ d.reason = "RISK_REWARD" =>
              /\ complete /\ sized /\ ~d.approved
              /\ d.rr_valid = Some(FALSE) /\ ~ratio_ok
              /\ d.portfolio_check = None
         /\ d.portfolio_check # None =>
              /\ complete /\ sized
              /\ d.rr_valid = Some(TRUE) /\ ratio_ok
              /\ d.approved <=> d.portfolio_check = Some(TRUE)
              /\ ~d.approved => d.reason \in
                   {"MAX_POSITIONS", "DAILY_LOSS", "MAX_TRADES",
                    "INSUFFICIENT_CAPITAL", "SECTOR_EXPOSURE"}
         /\ d.approved =>
              /\ d.reason = "APPROVED"
              /\ d.portfolio_check = Some(TRUE)
              /\ ret.op \in {"can_take_trade", "midnight"} /\ ret.allowed

\* a complete signal with a valid ratio and five shares (50 of a capital of
\* 40) is refused by the portfolio step, the last of the four
C31_Witness ==
    /\ input # << >>
    /\ ~output.approved
    /\ output.position_size = Some(5)
    /\ output.rr_valid = Some(TRUE)
    /\ output.portfolio_check = Some(FALSE)
    /\ output.reason = "INSUFFICIENT_CAPITAL"
    /\ called_today("can_take_trade")

\* C32: every signal approved by validate_trade has the geometry of its
\* action, stop_loss < price < target for BUY and target < price < stop_loss
\* for SELL, and no signal whose action is neither BUY nor SELL (CLOSE,
\* CLOSE_ALL) is approved as a new trade (specification SpecPipeline).
C32_ApprovedGeometry ==
    (input # << >> /\ output.approved) =>
        \/ /\ input.action = "BUY"
           /\ input.stop_loss < input.price
           /\ input.price < input.target
        \/ /\ input.action = "SELL"
           /\ input.target < input.price
           /\ input.price < input.stop_loss

slots_taken(log, t) ==
    Cardinality({i \in DOMAIN log : t - log[i].at < Window /\ log[i].at <= t})

\* C33: over any sequence of requests check_rate_limit accepts at most
\* rate_limit_per_minute requests within any window of 60 seconds; after
\* each call request_timestamps has at most rate_limit_per_minute entries,
\* all younger than 60 seconds; a rejected request is not recorded; and a
\* request is accepted exactly when fewer than rate_limit_per_minute
\* accepted requests lie within the last 60 seconds (specification
\* SpecWebhook).
C33_RateLimitWindow ==
    [][now' = now =>
         LET limit == handler.rate_limit_per_minute
             stamps == handler'.request_timestamps
             refused == output'.reason = "RATE_LIMIT"
         IN /\ Len(stamps) <= limit
            /\ \A i \in DOMAIN stamps : now - stamps[i] < Window
            /\ refused <=> slots_taken(accepted_at, now) >= limit
            /\ refused =>
                 /\ accepted_at' = accepted_at
                 /\ stamps = SelectSeq(handler.request_timestamps,
                                       LAMBDA ts : now - ts < Window)
            /\ ~refused =>
                 /\ Len(accepted_at') = Len(accepted_at) + 1
                 /\ stamps[Len(stamps)] = now
            /\ \A t \in 0..MaxNow : slots_taken(accepted_at', t) <= limit]_vars

\* two requests were accepted at tick 0 and, the window of two ticks having
\* passed, a third is accepted at tick 2
C33_Witness ==
    /\ now = 2
    /\ output.valid
    /\ Len(accepted_at) = 3
    /\ accepted_at[1].at = 0 /\ accepted_at[2].at = 0
    /\ accepted_at[3].at = 2
    /\ handler.request_timestamps = <<2>>

\* C34: with signature validation enabled and a webhook secret configured,
\* validate_request accepts a request only if it carries the HMAC-SHA256 of
\* its payload under the secret; a request with the right API key and a
\* missing or wrong signature is rejected (specification SpecWebhook).
C34_SignatureRequired ==
    (/\ input # << >>
     /\ handler.validate_signatures
     /\ handler.webhook_secret # ""
     /\ output.valid)
        => input.signature
             = hmac_sha256(handler.webhook_secret, input.payload)

\* C35: validate_request checks the rate limit, the IP whitelist, the API
\* key and the signature in this order and returns the first failure; it
\* returns OK only for an API key equal to the configured one, supplied in
\* the header or the payload; the rate-limit slot is taken before
\* authentication, so a request rejected for its address, key or signature
\* still counts toward the limit and can make a later, correctly
\* authenticated request be rejected as rate-limited (specification
\* SpecWebhook).
C35_ChecksInOrder ==
    [][now' = now =>
         LET h == handler
             r == input'
             reason == output'.reason
             rate_ok == slots_taken(accepted_at, now)
                            < h.rate_limit_per_minute
             ip_ok == \/ r.ip_address = ""
                      \/ h.allowed_ips = {}
                      \/ r.ip_address \in h.allowed_ips
             key == IF r.header_key # "" THEN r.header_key
                    ELSE r.payload.api_key
             signature_ok ==
                 \/ ~h.validate_signatures
                 \/ r.signature = None
                 \/ h.webhook_secret = ""
                 \/ r.signature = hmac_sha256(h.webhook_secret, r.payload)
         IN /\ reason = "RATE_LIMIT" <=> ~rate_ok
            /\ reason = "IP_NOT_WHITELISTED" <=> (rate_ok /\ ~ip_ok)
            /\ reason = "API_KEY_REQUIRED"
                 <=> (rate_ok /\ ip_ok /\ key = "")
            /\ reason = "INVALID_API_KEY"
                 <=> (rate_ok /\ ip_ok /\ key \notin {"", h.api_key})
            /\ reason = "INVALID_SIGNATURE"
                 <=> (rate_ok /\ ip_ok /\ key = h.api_key /\ ~signature_ok)
            /\ output'.valid <=> reason = "OK"
            /\ output'.valid =>
                 /\ key = h.api_key
                 /\ key \in {r.header_key, r.payload.api_key}
            /\ rate_ok =>
                 accepted_at' = Append(accepted_at,
                                       [valid |-> output'.valid, at |-> now])
            /\ ~rate_ok => accepted_at' = accepted_at]_vars

\* a request with the right key, address and signature is refused as
\* rate-limited although no request of the last window was authenticated
C35_Witness ==
    /\ input # << >>
    /\ output.reason = "RATE_LIMIT"
    /\ input.header_key = handler.api_key
    /\ input.ip_address = "10.0.0.1"
    /\ handler.webhook_secret = "secret"
    /\ input.signature = hmac_sha256("secret", input.payload)
    /\ \A i \in DOMAIN accepted_at :
         now - accepted_at[i].at < Window => ~accepted_at[i].valid

\* the step is a call that begins with _check_and_reset_daily_counters on a
\* new date
resets_day ==
    /\ new_day
    /\ ret'.op \in {"can_take_trade", "add_position", "get_portfolio_summary"}

\* C36: the length of todays_trades equals trades_today in every reachable
\* state: both grow by one on each successful add_position, neither changes
\* on remove_position, update_position_price, can_take_trade,
\* get_portfolio_summary or a duplicate add_position, and the day reset
\* clears both together (specification Spec).
C36_LogLengthIsTradesToday ==
    [][LET trades == IF resets_day THEN 0 ELSE trades_today
           log == IF resets_day THEN << >> ELSE todays_trades
           opened == ret'.op = "add_position" /\ ret'.allowed
       IN /\ Len(todays_trades) = trades_today
          /\ Len(todays_trades') = trades_today'
          /\ opened => /\ trades_today' = trades + 1
                       /\ Len(todays_trades') = Len(log) + 1
                       /\ SubSeq(todays_trades', 1, Len(log)) = log
          /\ ~opened => /\ trades_today' = trades
                        /\ Len(todays_trades') = Len(log)
          /\ ~opened /\ ret'.op # "remove_position" => todays_trades' = log
      ]_vars

\* two positions were opened today and one of them has been closed
C36_Witness ==
    /\ ret.op = "remove_position" /\ ret.allowed
    /\ trades_today = 2
    /\ Len(todays_trades) = 2

\* the records of the log that still wait for their pnl
unfilled(log, symbol) ==
    {i \in DOMAIN log : log[i].symbol = symbol /\ log[i].pnl = None}

unfilled_are_live(log, positions) ==
    \A i \in DOMAIN log :
        log[i].pnl = None =>
            /\ log[i].symbol \in DOMAIN positions
            /\ unfilled(log, log[i].symbol) = {i}

\* C37: every record of todays_trades whose pnl is still None belongs to a
\* symbol with a live position, and no symbol has two such records; so a
\* remove_position fills the record written by the add_position of the
\* very position it closes, also when the symbol is opened and closed
\* several times a day; a position carried over a day reset has no record
\* and its close fills none (specification Spec).
C37_CloseFillsItsOwnRecord ==
    [][/\ unfilled_are_live(todays_trades, active_positions)
       /\ unfilled_are_live(todays_trades', active_positions')
       /\ resets_day /\ ~(ret'.op = "add_position" /\ ret'.allowed)
            => todays_trades' = << >>
       /\ ret'.op = "remove_position" /\ ret'.allowed =>
            LET symbol == CHOOSE s \in DOMAIN active_positions :
                              s \notin DOMAIN active_positions'
                position == active_positions[symbol]
                waiting == unfilled(todays_trades, symbol)
            IN IF waiting = {}
               THEN todays_trades' = todays_trades
               ELSE \E i \in waiting :
                      /\ \A j \in DOMAIN todays_trades :
                           todays_trades[j].symbol = symbol => j <= i
                      /\ todays_trades[i].quantity = Abs(position.quantity)
                      /\ todays_trades[i].price = position.entry_price
                      /\ todays_trades[i].action =
                           (IF position.quantity > 0 THEN "BUY" ELSE "SELL")
                      /\ todays_trades' =
                           [todays_trades EXCEPT
                              ![i].pnl = Some(ret'.pnl)]]_vars

\* one symbol was opened and closed twice on one day, with different results
C37_Witness ==
    /\ ret.op = "remove_position" /\ ret.allowed
    /\ Len(todays_trades) = 2
    /\ todays_trades[1].symbol = todays_trades[2].symbol
    /\ todays_trades[1].pnl = Some(2)
    /\ todays_trades[2].pnl = Some(-2)

\* a position carried over the day reset is closed and no record is filled
C37_WitnessCarried ==
    /\ ret.op = "remove_position" /\ ret.allowed
    /\ ~new_day
    /\ todays_trades = << >>

\* C38: daily_loss and daily_profit are never negative and, between two day
\* resets, never decrease: a losing close adds its amount to daily_loss
\* only, a profitable close adds to daily_profit only and never reduces
\* daily_loss, so the daily-loss check of can_take_trade looks at the
\* gross losses booked since the reset, whatever the profit (specification
\* Spec).
C38_GrossLossNeverShrinks ==
    [][LET closed == ret'.op = "remove_position" /\ ret'.allowed
           pnl == ret'.pnl
       IN /\ daily_loss >= 0 /\ daily_profit >= 0
          /\ daily_loss' >= 0 /\ daily_profit' >= 0
          /\ resets_day => daily_loss' = 0 /\ daily_profit' = 0
          /\ ~resets_day =>
               /\ daily_loss' >= daily_loss
               /\ daily_profit' >= daily_profit
          /\ ~resets_day /\ ~closed =>
               /\ daily_loss' = daily_loss
               /\ daily_profit' = daily_profit
          /\ closed /\ pnl >= 0 =>
               /\ daily_loss' = daily_loss
               /\ daily_profit' = daily_profit + pnl
          /\ closed /\ pnl < 0 =>
               /\ daily_loss' = daily_loss - pnl
               /\ daily_profit' = daily_profit
          /\ (/\ ret'.op = "can_take_trade"
              /\ Cardinality(DOMAIN active_positions) < max_positions)
               => (ret'.reason = "DAILY_LOSS"
                     <=> daily_loss' * max_daily_loss_percent_den
                           >= initial_capital * max_daily_loss_percent_num)
      ]_vars

\* the day's closes net to a gain, and can_take_trade still refuses for
\* the daily loss
C38_Witness ==
    /\ ret.op = "can_take_trade"
    /\ ret.reason = "DAILY_LOSS"
    /\ daily_profit > daily_loss
    /\ daily_loss > 0

\* C39: capital and initial_capital are constant after construction: no
\* add_position, remove_position (with profit or loss),
\* update_position_price, can_take_trade, get_portfolio_summary or day
\* reset changes them, so the base of the available-capital,
\* sector-exposure and daily-loss checks neither shrinks with realized
\* losses nor grows with realized profits; the notional of a position in
\* those checks is |quantity| * current_price, so it follows
\* update_position_price (specification Spec).
C39_CapitalIsConstant ==
    [][/\ capital = configured_capital
       /\ initial_capital = configured_capital
       /\ capital' = capital
       /\ initial_capital' = initial_capital
       /\ \A s \in DOMAIN active_positions' :
            LET pos == active_positions'[s]
            IN position_value(pos) = Abs(pos.quantity) * pos.current_price
       /\ ret'.op = "update_position_price" =>
            \A s \in DOMAIN active_positions :
                \/ active_positions'[s] = active_positions[s]
                \/ /\ active_positions'[s].current_price \in UpdatePrices
                   /\ position_value(active_positions'[s])
                        = Abs(active_positions[s].quantity)
                            * active_positions'[s].current_price
       /\ ret'.op = "can_take_trade" /\ ret'.allowed =>
            used_capital(active_positions) <= configured_capital
       /\ ret'.op = "can_take_trade" /\ ret'.reason = "DAILY_LOSS" =>
            daily_loss' * max_daily_loss_percent_den
                >= configured_capital * max_daily_loss_percent_num]_vars

\* after a losing and a winning close the capital is what it was, and a
\* live position is valued at its updated price, not at its entry price
C39_Witness ==
    /\ ret.op = "update_position_price"
    /\ daily_loss > 0 /\ daily_profit > 0
    /\ capital = configured_capital
    /\ initial_capital = configured_capital
    /\ \E s \in DOMAIN active_positions :
         /\ position_value(active_positions[s]) = 22
         /\ Abs(active_positions[s].quantity)
              * active_positions[s].entry_price = 20

====
